---- MODULE Spec2Model ----
(***************************************************************************)
(* A model of the caib command-line client (cmd/caib/main.go): the build   *)
(* operation runBuild with its manifest preprocessing, upload readiness    *)
(* wait, upload transfer, build monitor loop and artifact download.        *)
(*                                                                         *)
(* Go strings that the code inspects character by character (manifest      *)
(* source paths) are sequences of one-character strings.  Flag values are  *)
(* TLA+ strings drawn from small sets.  A deadline is a boolean that turns  *)
(* TRUE, and stays TRUE, at any step during which time passes.  The process *)
(* has exited when pc = "exited", and exitCode is then its exit status.    *)
(***************************************************************************)
EXTENDS Integers, Sequences, FiniteSets, TLC

\* ------------------------------------------------------------------ bounds
\* Largest number of upload-transfer calls of one run that answer "transient".
MaxUploadRetries == 3
\* Largest number of entries of an archive.
MaxEntries == 2

\* ------------------------------------------------------------ Go strings
\* strings.Contains(s, sub)
Contains(s, sub) ==
  \E i \in 0..(Len(s) - Len(sub)) : SubSeq(s, i + 1, i + Len(sub)) = sub

\* strings.HasPrefix(s, prefix)
HasPrefix(s, prefix) ==
  Len(s) >= Len(prefix) /\ SubSeq(s, 1, Len(prefix)) = prefix

\* filepath.IsAbs on a POSIX system
IsAbs(p) == HasPrefix(p, <<"/">>)

\* strings.TrimSpace on the flag values of the model: "" and " " are blank.
TrimSpace(s) == IF s \in {"", " "} THEN "" ELSE s

Nil == "nil"
\* The value of a manifest key that is absent or holds no string.
NoString == <<"<no string>">>

\* --------------------------------------------------- manifest preprocessing
\* The safe-directory allow-list of isPathSafe: empty in the code.
safeDirectories == {}

\* isPathSafe without its absolute-path branch.
isPathSafe_noAbsCheck(path) ==
  IF path = <<>> \/ path = <<"/">> THEN "empty or root path is not allowed"
  ELSE IF Contains(path, <<".", ".">>) THEN "directory traversal detected in path"
  ELSE Nil

\* The closure isPathSafe of findLocalFileReferences: Nil, or the error.
isPathSafe(path) ==
  IF path = <<>> \/ path = <<"/">> THEN "empty or root path is not allowed"
  ELSE IF Contains(path, <<".", ".">>) THEN "directory traversal detected in path"
  ELSE IF IsAbs(path)
       THEN LET isInSafeDir ==
                  \E dir \in safeDirectories : HasPrefix(path, dir \o <<"/">>)
            IN  IF ~isInSafeDir THEN "absolute path outside safe directories"
                ELSE Nil
  ELSE Nil

\* The closure processAddFiles: walks one add_files list, appending to the
\* captured localFiles; stops at the first unsafe source_path.
RECURSIVE processAddFiles(_, _)
processAddFiles(addFiles, localFiles) ==
  IF addFiles = <<>> THEN [err |-> Nil, localFiles |-> localFiles]
  ELSE LET file == Head(addFiles)
           hasPath == file.path # NoString
           hasSourcePath == file.source_path # NoString
       IN  IF hasPath /\ hasSourcePath
           THEN IF isPathSafe(file.source_path) # Nil
                THEN [err |-> isPathSafe(file.source_path), localFiles |-> localFiles]
                ELSE processAddFiles(Tail(addFiles),
                       Append(localFiles, [path |-> file.path,
                                           source_path |-> file.source_path]))
           ELSE processAddFiles(Tail(addFiles), localFiles)

\* findLocalFileReferences: the references of content.add_files followed by
\* those of qm.content.add_files, or no references and an error.
findLocalFileReferences(manifestContent) ==
  IF ~manifestContent.valid
  THEN [refs |-> <<>>, err |-> "failed to parse manifest YAML"]
  ELSE LET c == processAddFiles(manifestContent.content, <<>>)
       IN  IF c.err # Nil THEN [refs |-> <<>>, err |-> c.err]
           ELSE LET q == processAddFiles(manifestContent.qm, c.localFiles)
                IN  IF q.err # Nil THEN [refs |-> <<>>, err |-> q.err]
                    ELSE [refs |-> q.localFiles, err |-> Nil]

\* ---------------------------------------------------------- manifest inputs
\* The destination path of the sample entries.
DestPath == <<"/", "a">>

Entry(p, sp, s) == [path |-> p, source_path |-> sp, source |-> s]

Manifest(c, q) == [valid |-> TRUE, content |-> c, qm |-> q]
BadYAML == [valid |-> FALSE, content |-> <<>>, qm |-> <<>>]

\* An entry with a string path and the source_path sp.
E(sp) == Entry(DestPath, sp, NoString)

\* The manifest files a whole run of the build operation may read.
SampleManifests ==
  { BadYAML,
    Manifest(<<>>, <<>>),
    Manifest(<<E(<<"a">>)>>, <<>>),
    Manifest(<<E(<<"a">>)>>, <<E(<<".", "/", "a">>)>>),
    Manifest(<<Entry(DestPath, NoString, <<"a">>)>>, <<>>),
    Manifest(<<E(<<>>)>>, <<>>),
    Manifest(<<E(<<"/">>)>>, <<>>),
    Manifest(<<E(<<"/", "a">>)>>, <<>>),
    Manifest(<<E(<<".", ".", "/", "a">>)>>, <<>>),
    Manifest(<<E(<<"a">>), E(<<"a", "/", ".", ".">>)>>, <<>>),
    Manifest(<<E(<<"a">>)>>, <<E(<<"/", "a">>)>>),
    Manifest(<<Entry(DestPath, NoString, <<".", ".", "/", "a">>)>>, <<>>),
    Manifest(<<Entry(NoString, <<".", ".">>, NoString)>>, <<>>) }

\* ------------------------------------------------------------- remote API
Phases == {"Accepted", "Uploading", "Building", "Completed", "Failed"}
Messages == {"", "oom"}
Statuses == [Phase : Phases, Message : Messages]
\* The answers of one GetBuild call: a status, or an error.
GetBuildErr == [Phase |-> "<error>", Message |-> ""]
GetBuildAnswers == Statuses \cup {GetBuildErr}

\* ------------------------------------------------------ enumeration parsing
Distros == {"autosd", "cs9"}
Targets == {"qemu"}
Architectures == {"arm64", "amd64"}
ExportFormats == {"image", "qcow2"}
Modes == {"image", "package"}

ParseDistro(s) == IF s \in Distros THEN Nil ELSE "invalid distro"
ParseTarget(s) == IF s \in Targets THEN Nil ELSE "invalid target"
ParseArchitecture(s) == IF s \in Architectures THEN Nil ELSE "invalid architecture"
ParseExportFormat(s) == IF s \in ExportFormats THEN Nil ELSE "invalid export format"
ParseMode(s) == IF s \in Modes THEN Nil ELSE "invalid mode"

\* ----------------------------------------------------- credential lookup
\* What loadTokenFromKubeconfig finds on the machine:
\*   clientConfigOk   deferred.ClientConfig() returns a configuration
\*   BearerToken      its bearer token
\*   BearerTokenFile  the content of its token file; <<>> when no file is
\*                    named or the file cannot be read
\*   raw              the outcome of loading the raw kubeconfig and of looking
\*                    up its current context and that context's auth info
\*   Token            the auth info's token
\*   AuthProvider     the auth provider's configuration; <<>> when there is none
\*   oc               the output of "oc whoami -t"; <<>> when oc is not on the
\*                    PATH, <<"">> when the command fails or prints nothing
Tokens == {"", "tok"}
RawOutcomes == {"load error", "no current context", "missing context",
                "missing auth info", "ok"}
ProviderConfigs == [accessToken : Tokens, idToken : Tokens, token : Tokens]
KubeEnvs ==
  [clientConfigOk : BOOLEAN, BearerToken : Tokens,
   BearerTokenFile : {<<>>} \cup {<<t>> : t \in Tokens},
   raw : RawOutcomes, Token : Tokens,
   AuthProvider : {<<>>} \cup {<<c>> : c \in ProviderConfigs},
   oc : {<<>>} \cup {<<t>> : t \in Tokens}]

\* A machine without any kubeconfig and without oc, and one whose client
\* configuration carries a bearer token.
NoKubeconfig ==
  [clientConfigOk |-> FALSE, BearerToken |-> "", BearerTokenFile |-> <<>>,
   raw |-> "no current context", Token |-> "", AuthProvider |-> <<>>,
   oc |-> <<>>]
KubeSamples == {NoKubeconfig, [NoKubeconfig EXCEPT !.clientConfigOk = TRUE,
                                                   !.BearerToken = "tok",
                                                   !.raw = "ok"]}

\* The results of loadTokenFromKubeconfig: a token or an error, with the
\* credential sources consulted on the way, in order.
Found(t, steps) == [tok |-> t, err |-> Nil, steps |-> steps]
NotFound(e, steps) == [tok |-> "", err |-> e, steps |-> steps]

\* loadTokenFromKubeconfig, lines 764-773: the external login helper.
tryHelper(k, steps) ==
  IF k.oc # <<>>
  THEN IF TrimSpace(k.oc[1]) # ""
       THEN Found(TrimSpace(k.oc[1]), Append(steps, "helper"))
       ELSE NotFound("no bearer token found in kubeconfig",
                     Append(steps, "helper"))
  ELSE NotFound("no bearer token found in kubeconfig", steps)

\* loadTokenFromKubeconfig, lines 754-763: the auth provider's fields.
tryAuthProvider(k, steps) ==
  IF k.AuthProvider # <<>>
  THEN LET c == k.AuthProvider[1]
       IN  IF TrimSpace(c.accessToken) # ""
           THEN Found(TrimSpace(c.accessToken), Append(steps, "access-token"))
           ELSE IF TrimSpace(c.idToken) # ""
           THEN Found(TrimSpace(c.idToken),
                      steps \o <<"access-token", "id-token">>)
           ELSE IF TrimSpace(c.token) # ""
           THEN Found(TrimSpace(c.token),
                      steps \o <<"access-token", "id-token", "provider-token">>)
           ELSE tryHelper(k, steps \o <<"access-token", "id-token",
                                        "provider-token">>)
  ELSE tryHelper(k, steps)

\* loadTokenFromKubeconfig, lines 734-753: the raw kubeconfig and the token
\* of the current context's auth info.
tryRawConfig(k, steps) ==
  IF k.raw = "load error" THEN NotFound("cannot load kubeconfig", steps)
  ELSE IF k.raw = "no current context"
  THEN NotFound("no current kube context", steps)
  ELSE IF k.raw = "missing context" THEN NotFound("missing context", steps)
  ELSE IF k.raw = "missing auth info"
  THEN NotFound("missing auth info for context", steps)
  ELSE IF TrimSpace(k.Token) # ""
  THEN Found(TrimSpace(k.Token), Append(steps, "legacy-token"))
  ELSE tryAuthProvider(k, Append(steps, "legacy-token"))

\* loadTokenFromKubeconfig, lines 716-733: the client configuration's bearer
\* token and token file, then the rest.
loadTokenFromKubeconfig(k) ==
  IF k.clientConfigOk
  THEN IF TrimSpace(k.BearerToken) # ""
       THEN Found(TrimSpace(k.BearerToken), <<"bearer">>)
       ELSE IF k.BearerTokenFile # <<>> /\ TrimSpace(k.BearerTokenFile[1]) # ""
       THEN Found(TrimSpace(k.BearerTokenFile[1]), <<"bearer", "file">>)
       ELSE tryRawConfig(k, <<"bearer", "file">>)
  ELSE tryRawConfig(k, <<"bearer">>)

\* ------------------------------------------------------ archive extraction
\* strings.HasSuffix(s, suffix) and strings.TrimSuffix(s, suffix)
HasSuffix(s, suffix) ==
  Len(s) >= Len(suffix)
  /\ SubSeq(s, Len(s) - Len(suffix) + 1, Len(s)) = suffix

TrimSuffix(s, suffix) ==
  IF HasSuffix(s, suffix) THEN SubSeq(s, 1, Len(s) - Len(suffix)) ELSE s

\* strings.ToLower on a file name: a name is its stem and its extensions.
ToLower(s) ==
  [i \in DOMAIN s |-> IF s[i] = ".TAR" THEN ".tar"
                      ELSE IF s[i] = ".GZ" THEN ".gz" ELSE s[i]]

\* What the remote answers to a successful artifact fetch: the Content-Type
\* header, the file name of the Content-Disposition header (<<>> when there
\* is none), and the body: a tar stream of entries, gzip-compressed or not.
TarEntry(name, flag, link) ==
  [Name |-> name, Typeflag |-> flag, Linkname |-> link]
Artifact(ct, fname, gz, entries) ==
  [contentType |-> ct, filename |-> fname, gzipped |-> gz,
   entries |-> entries]

\* lines 483-493 and 500: the name of the downloaded file, from the
\* server's hint or else the build name with ".artifact".
outPathOf(name, a) ==
  IF a.filename # <<>> THEN a.filename ELSE <<name, ".artifact">>

\* line 554: the response is taken for an archive by its content type or by
\* the suffix of the file name.
isArchive(contentType, outPath) ==
  \/ HasPrefix(contentType, <<"application/x-tar">>)
  \/ HasPrefix(contentType, <<"application/gzip">>)
  \/ HasSuffix(ToLower(outPath), <<".tar">>)
  \/ HasSuffix(ToLower(outPath), <<".tar", ".gz">>)

\* lines 556-557: the directory the archive is extracted into.
destDirOf(outPath) == TrimSuffix(TrimSuffix(outPath, <<".tar">>), <<".gz">>)

\* filepath.Join(destDir, name), as a path relative to destDir: the name, a
\* sequence of segments, is appended and the whole is cleaned.  The leading
\* "/" of an absolute name is one more separator, "." is dropped, and ".."
\* removes the segment before it or, when there is none, leads out of
\* destDir.
RECURSIVE cleanFrom(_, _)
cleanFrom(done, rest) ==
  IF rest = <<>> THEN done
  ELSE IF Head(rest) \in {".", "/"} THEN cleanFrom(done, Tail(rest))
  ELSE IF Head(rest) = ".." /\ done # <<>> /\ done[Len(done)] # ".."
  THEN cleanFrom(SubSeq(done, 1, Len(done) - 1), Tail(rest))
  ELSE cleanFrom(Append(done, Head(rest)), Tail(rest))

Clean(p) == cleanFrom(<<>>, p)

\* filepath.Dir of a cleaned relative path
Dir(p) == IF p = <<>> THEN <<>> ELSE SubSeq(p, 1, Len(p) - 1)

\* The file system at and around the extraction directory: a set of nodes,
\* each at a path relative to that directory.  The directory itself and the
\* directories above it (paths of ".." only) exist.
Node(p, kind, link) == [path |-> p, kind |-> kind, link |-> link]
nodeAt(tree, p) ==
  IF \A i \in DOMAIN p : p[i] = ".." THEN Node(p, "dir", <<>>)
  ELSE IF \E n \in tree : n.path = p THEN CHOOSE n \in tree : n.path = p
  ELSE Node(p, "none", <<>>)

\* What a symbolic link at path p with target link points to.
linkTarget(p, link) == Clean(Dir(p) \o link)

\* The node a path names once a link at it is followed (one link deep: the
\* archives of the model hold no link to a link).
statAt(tree, p) ==
  LET n == nodeAt(tree, p)
  IN  IF n.kind = "symlink" THEN nodeAt(tree, linkTarget(p, n.link)) ELSE n

\* The path of the node that p names, links in its directory part followed.
RECURSIVE realPath(_, _)
realPath(tree, p) ==
  IF p = <<>> THEN <<>>
  ELSE LET d == realPath(tree, Dir(p))
           n == nodeAt(tree, d)
           q == IF n.kind = "symlink" THEN linkTarget(d, n.link) ELSE d
       IN  Clean(Append(q, p[Len(p)]))

FsResult(tree, err) == [tree |-> tree, err |-> err]

\* os.MkdirAll(p): every missing directory on the way is created; a path
\* segment that exists and is no directory is an error.
RECURSIVE mkdirFrom(_, _, _)
mkdirFrom(tree, p, i) ==
  IF i > Len(p) THEN FsResult(tree, Nil)
  ELSE LET q == realPath(tree, SubSeq(p, 1, i))
       IN  IF statAt(tree, q).kind = "dir" THEN mkdirFrom(tree, p, i + 1)
           ELSE IF nodeAt(tree, q).kind = "none"
           THEN mkdirFrom(tree \cup {Node(q, "dir", <<>>)}, p, i + 1)
           ELSE FsResult(tree, "not a directory")

MkdirAll(tree, p) == mkdirFrom(tree, p, 1)

\* os.OpenFile(p, O_CREATE|O_WRONLY|O_TRUNC) and the copy of the content:
\* a link at p is followed, a directory is an error.
OpenFile(tree, p) ==
  LET q == realPath(tree, p)
      n == nodeAt(tree, q)
      t == IF n.kind = "symlink" THEN linkTarget(q, n.link) ELSE q
      k == nodeAt(tree, t).kind
  IN  IF k = "dir" THEN FsResult(tree, "is a directory")
      ELSE IF k = "symlink" THEN FsResult(tree, "too many links")
      ELSE IF k = "reg" THEN FsResult(tree, Nil)
      ELSE IF statAt(tree, realPath(tree, Dir(t))).kind # "dir"
      THEN FsResult(tree, "no such file or directory")
      ELSE FsResult(tree \cup {Node(t, "reg", <<>>)}, Nil)

\* os.Symlink(link, p) with the "exists" error ignored (line 630): when
\* anything is at p already, nothing is created and no error is returned.
Symlink(tree, p, link) ==
  LET q == realPath(tree, p)
  IN  IF nodeAt(tree, q).kind = "none"
      THEN FsResult(tree \cup {Node(q, "symlink", link)}, Nil)
      ELSE FsResult(tree, Nil)

\* extractTar, lines 610-636: one entry of the archive.
extractEntry(tree, hdr) ==
  LET targetPath == Clean(hdr.Name)
  IN  IF hdr.Typeflag = "dir" THEN MkdirAll(tree, targetPath)
      ELSE IF hdr.Typeflag = "reg"
      THEN LET m == MkdirAll(tree, Dir(targetPath))
           IN  IF m.err # Nil THEN m ELSE OpenFile(m.tree, targetPath)
      ELSE IF hdr.Typeflag = "symlink"
      THEN LET m == MkdirAll(tree, Dir(targetPath))
           IN  IF m.err # Nil THEN m
               ELSE Symlink(m.tree, targetPath, hdr.Linkname)
      ELSE FsResult(tree, Nil)

\* extractTar, lines 602-637: the entries in order; the first error ends
\* the extraction.
RECURSIVE extractEntries(_, _)
extractEntries(tree, entries) ==
  IF entries = <<>> THEN FsResult(tree, Nil)
  ELSE LET r == extractEntry(tree, Head(entries))
       IN  IF r.err # Nil THEN r ELSE extractEntries(r.tree, Tail(entries))

\* extractTar, lines 593-601: what the tar reader is given to read.  A
\* gzip reader is used when the file name ends in ".gz" and the content is
\* gzip; when the content is not, gzip.NewReader fails after it has read the
\* head of the file, and the tar reader goes on from there: it finds no valid
\* header, or the entries that start after the part already read.  Without
\* the suffix the tar reader is given the file as it is.
tarStreams(tarPath, a) ==
  IF HasSuffix(ToLower(tarPath), <<".gz">>)
  THEN IF a.gzipped THEN {[entries |-> a.entries, err |-> Nil]}
       ELSE {[entries |-> <<>>, err |-> "invalid tar header"]}
            \cup {[entries |-> SubSeq(a.entries, k, Len(a.entries)),
                   err |-> Nil] :
                    k \in (2..(Len(a.entries) + 1)) \cup {Len(a.entries) + 1}}
  ELSE IF a.gzipped
       THEN {[entries |-> <<>>, err |-> "invalid tar header"]}
       ELSE {[entries |-> a.entries, err |-> Nil]}

\* extractTar: the outcomes of extracting the downloaded file into an empty
\* destination directory.  os.Open or a write may fail on its own account.
extractTar(tarPath, a) ==
  {FsResult({}, "i/o error")}
  \cup {IF s.err # Nil THEN FsResult({}, s.err)
        ELSE extractEntries({}, s.entries) : s \in tarStreams(tarPath, a)}

\* The entries of the archives of the model: a directory, a file in it, a
\* file, a link to that file, a named pipe, a file whose name leaves the
\* extraction directory, and a file with an absolute name.
EntrySamples ==
  {TarEntry(<<"a">>, "dir", <<>>), TarEntry(<<"a", "b">>, "reg", <<>>),
   TarEntry(<<"c">>, "reg", <<>>), TarEntry(<<"l">>, "symlink", <<"c">>),
   TarEntry(<<"f">>, "fifo", <<>>), TarEntry(<<"..", "x">>, "reg", <<>>),
   TarEntry(<<"/", "e">>, "reg", <<>>)}
Archives == UNION {[1..n -> EntrySamples] : n \in 0..MaxEntries}

\* Content type, file name hint and compression of the answers of the model.
ArtifactHeads ==
  {<<<<"application/octet-stream">>, <<>>, FALSE>>,
   <<<<"application/x-tar">>, <<"demo", ".tar">>, FALSE>>,
   <<<<"application/gzip">>, <<"demo", ".tar", ".gz">>, TRUE>>,
   <<<<"application/x-tar">>, <<>>, FALSE>>,
   <<<<"application/octet-stream">>, <<"demo", ".TAR">>, FALSE>>,
   <<<<"application/x-tar">>, <<"demo", ".tar", ".gz">>, FALSE>>,
   <<<<"application/gzip">>, <<"demo", ".tar">>, TRUE>>,
   <<<<"application/gzip">>, <<>>, TRUE>>}
Artifacts ==
  {Artifact(h[1], h[2], h[3], e) : h \in ArtifactHeads, e \in Archives}

\* A disk image, and a directory export of a directory with one file.
ImageArtifact == Artifact(<<"application/octet-stream">>, <<>>, FALSE, <<>>)
TreeArtifact ==
  Artifact(<<"application/x-tar">>, <<"demo", ".tar">>, FALSE,
           <<TarEntry(<<"a">>, "dir", <<>>),
             TarEntry(<<"a", "b">>, "reg", <<>>)>>)

\* ------------------------------------------------------------------ state
VARIABLES
  \* the subcommand invoked: build, download or list
  op,
  \* command-line flags (package-level variables of main.go)
  manifest, buildName, architecture, distro, target, exportFormat, mode,
  serverURL, authToken, waitForBuild, followLogs, download, compressArtifacts,
  \* control: position in runBuild, process exit status, reported error
  pc, exitCode, errMsg,
  \* locals of runBuild
  manifestBytes, req, resp, localRefs, uploads, st,
  userFollowRequested, lastPhase, lastMessage, logFollowWarned,
  \* deadlines: TRUE once passed
  readyExpired, uploadExpired, waitExpired, artifactExpired,
  \* locals and effects of downloadArtifactViaAPI
  warned, tmpExists, outExists, dlErr,
  \* the kinds of answer the artifact fetches of the retrieval have returned
  artifactSeen,
  \* how much of the response stream has been written to a file
  copied,
  \* the artifact the remote holds, and the file system at the extraction
  \* directory
  served, tree,
  \* how often each "not ready" notice was printed
  notices,
  \* network calls issued so far, and what they returned
  issued, createCalls, uploadCalls, uploadLog,
  \* how often the readiness wait was passed and the retrieval was called
  readyPasses, retrieverCalls,
  \* the cluster configuration and login helper of the machine, and the
  \* credential sources consulted so far, in order
  kube, tried

flagVars == <<op, manifest, buildName, architecture, distro, target, exportFormat,
              mode, serverURL, waitForBuild, download, compressArtifacts>>
ctlVars == <<pc, exitCode, errMsg>>
buildVars == <<manifestBytes, req, resp, localRefs, uploads>>
monVars == <<userFollowRequested, lastPhase, lastMessage, logFollowWarned>>
timeVars == <<readyExpired, uploadExpired, waitExpired, artifactExpired>>
dlVars == <<warned, tmpExists, outExists, dlErr, artifactSeen, copied, tree>>
netVars == <<issued, createCalls, uploadCalls, uploadLog, readyPasses,
            retrieverCalls>>
credVars == <<authToken, kube, tried>>

vars == <<flagVars, served, notices, credVars, followLogs, ctlVars, buildVars,
          st, monVars, timeVars, dlVars, netVars>>

NoStatus == [Phase |-> "", Message |-> ""]

\* The values of --distro, --target, --export and --mode: all recognized, or
\* one of them unrecognized.
EnumFlagSamples ==
  { <<"autosd", "qemu", "qcow2", "image">>,
    <<"bogus", "qemu", "qcow2", "image">>,
    <<"autosd", "bogus", "qcow2", "image">>,
    <<"autosd", "qemu", "bogus", "image">>,
    <<"autosd", "qemu", "qcow2", "bogus">> }

\* The state of the locals and of the environment when a command starts.
RunInit ==
  /\ pc = "validate" /\ exitCode = 0 /\ errMsg = <<>>
  /\ manifestBytes = <<>> /\ req = <<>> /\ resp = <<>>
  /\ localRefs = <<>> /\ uploads = <<>> /\ st = NoStatus
  /\ userFollowRequested = FALSE /\ lastPhase = "" /\ lastMessage = ""
  /\ logFollowWarned = FALSE
  /\ readyExpired = FALSE /\ uploadExpired = FALSE
  /\ waitExpired = FALSE /\ artifactExpired = FALSE
  /\ warned = FALSE /\ tmpExists = FALSE /\ outExists = FALSE /\ dlErr = <<>>
  /\ artifactSeen = {} /\ copied = "nothing" /\ tree = {}
  /\ notices = [upload |-> 0, logs |-> 0, artifact |-> 0]
  /\ issued = {} /\ createCalls = 0 /\ uploadCalls = 0 /\ uploadLog = <<>>
  /\ readyPasses = 0 /\ retrieverCalls = 0 /\ tried = <<>>

\* caib build: the flags of lines 80-100.
BuildInit ==
  /\ op = "build"
  /\ manifest \in {"", "m.aib.yml"}
  /\ buildName \in {"", "demo"}
  /\ architecture \in {"", " ", "arm64", "riscv"}
  /\ \E e \in EnumFlagSamples :
       distro = e[1] /\ target = e[2] /\ exportFormat = e[3] /\ mode = e[4]
  /\ serverURL \in {"", "https://api.example"}
  /\ authToken \in {"", "tok"}
  /\ waitForBuild \in BOOLEAN
  /\ followLogs \in BOOLEAN
  /\ download \in BOOLEAN
  /\ compressArtifacts \in BOOLEAN

\* The flags a command does not define keep their zero values.
NoBuildFlags ==
  /\ manifest = "" /\ architecture = "" /\ distro = "" /\ target = ""
  /\ exportFormat = "" /\ mode = ""
  /\ waitForBuild = FALSE /\ followLogs = FALSE /\ download = FALSE

\* caib download: the flags of lines 103-108.
DownloadInit ==
  /\ op = "download"
  /\ buildName \in {"", "demo"}
  /\ serverURL \in {"", " ", "https://api.example"}
  /\ authToken \in {"", "tok"}
  /\ compressArtifacts \in BOOLEAN
  /\ NoBuildFlags

\* caib list: the flags of lines 110-111.
ListInit ==
  /\ op = "list"
  /\ serverURL \in {"", " ", "https://api.example"}
  /\ authToken \in {"", " ", "tok"}
  /\ buildName = "" /\ compressArtifacts = FALSE
  /\ NoBuildFlags

\* The machines and remote artifacts of the runs: no kubeconfig and a disk
\* image, a bearer token and a directory export.
EnvSamples ==
  {[kube |-> NoKubeconfig, served |-> ImageArtifact],
   [kube |-> CHOOSE k \in KubeSamples : k # NoKubeconfig,
    served |-> TreeArtifact]}

Init ==
  /\ BuildInit \/ DownloadInit \/ ListInit
  /\ \E e \in EnvSamples : kube = e.kube /\ served = e.served
  /\ RunInit

\* One more print of the "not ready" notice of an operation: "Upload server
\* not ready yet" (line 251), "log stream not ready" (line 301) or "Artifact
\* not ready yet" (line 576).
noticed(operation) == [notices EXCEPT ![operation] = @ + 1]

\* handleError: print the error and exit with status 1.  An error message is
\* a sequence of strings: its text, then the detail it carries, if any.
handleError(err) == pc' = "exited" /\ exitCode' = 1 /\ errMsg' = err

\* return from runBuild: the process exits with status 0.
returnFromRun == pc' = "exited" /\ exitCode' = 0 /\ errMsg' = errMsg

\* ------------------------------------------------------ local validation
\* validateBuildRequirements without the build-name check.
validateBuildRequirements_noName ==
  IF manifest = "" THEN "--manifest is required"
  ELSE IF TrimSpace(architecture) = "" THEN "--arch is required"
  ELSE Nil

validateBuildRequirements ==
  IF manifest = "" THEN "--manifest is required"
  ELSE IF buildName = "" THEN "name is required"
  ELSE IF TrimSpace(architecture) = "" THEN "--arch is required"
  ELSE Nil

\* The server check: runBuild compares with the empty string (line 128),
\* runDownload and runList trim first (lines 645 and 683).
serverMissing ==
  IF op = "build" THEN serverURL = "" ELSE TrimSpace(serverURL) = ""

\* runBuild, lines 124-130: required flags and the server URL; runDownload,
\* lines 645-648, and runList, lines 683-686: the server URL only.
Validate ==
  /\ pc = "validate"
  /\ IF op = "build" /\ validateBuildRequirements # Nil
     THEN handleError(<<validateBuildRequirements>>)
     ELSE IF serverMissing THEN handleError(<<"--server is required">>)
     ELSE pc' = "client" /\ UNCHANGED <<exitCode, errMsg>>
  /\ UNCHANGED <<flagVars, served, notices, credVars, followLogs, buildVars, st, monVars,
                 timeVars, dlVars, netVars>>

\* The credential in use after lines 133-137: the explicit token unless it
\* is blank; else what loadTokenFromKubeconfig returns, if that is a token.
resolveToken ==
  IF TrimSpace(authToken) # ""
  THEN [tok |-> authToken, steps |-> <<"explicit">>]
  ELSE LET r == loadTokenFromKubeconfig(kube)
       IN  [tok |-> IF r.err = Nil /\ TrimSpace(r.tok) # ""
                    THEN r.tok ELSE authToken,
            steps |-> <<"explicit">> \o r.steps]

\* Where a command goes on once it has its API client.
afterClient ==
  IF op = "build" THEN "readManifest"
  ELSE IF op = "download" THEN "getBuild" ELSE "listBuilds"

\* runBuild, lines 132-145, runDownload, lines 650-663, and runList, lines
\* 687-700: a blank token is replaced by the one the local cluster
\* configuration yields, if any; then the API client is built.
NewClient ==
  /\ pc = "client"
  /\ authToken' = resolveToken.tok
  /\ tried' = resolveToken.steps
  /\ \E newErr \in {Nil, "invalid server URL"} :
       IF newErr # Nil THEN handleError(<<newErr>>)
       ELSE pc' = afterClient /\ UNCHANGED <<exitCode, errMsg>>
  /\ UNCHANGED <<flagVars, served, notices, kube, followLogs, buildVars, st, monVars,
                 timeVars, dlVars, netVars>>

\* runBuild, lines 147-150: read the manifest file.
ReadManifest ==
  /\ pc = "readManifest"
  /\ \/ /\ handleError(<<"error reading manifest">>)
        /\ UNCHANGED manifestBytes
     \/ \E m \in SampleManifests :
          /\ manifestBytes' = <<m>>
          /\ pc' = "parse" /\ UNCHANGED <<exitCode, errMsg>>
  /\ UNCHANGED <<flagVars, served, notices, credVars, followLogs, req, resp, localRefs,
                 uploads, st, monVars, timeVars, dlVars, netVars>>

\* The first error of the five Parse calls in the order of lines 152-171.
parseFlags ==
  IF ParseDistro(distro) # Nil THEN ParseDistro(distro)
  ELSE IF ParseTarget(target) # Nil THEN ParseTarget(target)
  ELSE IF ParseArchitecture(architecture) # Nil THEN ParseArchitecture(architecture)
  ELSE IF ParseExportFormat(exportFormat) # Nil THEN ParseExportFormat(exportFormat)
  ELSE ParseMode(mode)

\* runBuild, lines 152-171: translate the enumeration flags.
ParseFlags ==
  /\ pc = "parse"
  /\ IF parseFlags # Nil THEN handleError(<<parseFlags>>)
     ELSE pc' = "create" /\ UNCHANGED <<exitCode, errMsg>>
  /\ UNCHANGED <<flagVars, served, notices, credVars, followLogs, buildVars, st, monVars,
                 timeVars, dlVars, netVars>>

\* ------------------------------------------------------------- submission
\* CreateBuild that tries again when the call fails.
CreateBuild_retry ==
  /\ pc = "create"
  /\ createCalls' = createCalls + 1
  /\ issued' = issued \cup {"create"}
  /\ req' = <<[Name |-> buildName, Manifest |-> manifestBytes[1],
               ServeArtifact |-> download]>>
  /\ \/ /\ pc' = "create" /\ UNCHANGED <<exitCode, errMsg>>
        /\ UNCHANGED resp
     \/ /\ resp' = <<[Name |-> buildName, Phase |-> "Accepted", Message |-> ""]>>
        /\ pc' = "findRefs" /\ UNCHANGED <<exitCode, errMsg>>
  /\ UNCHANGED <<flagVars, served, notices, credVars, followLogs, manifestBytes, localRefs,
                 uploads, st, monVars, timeVars, dlVars, uploadCalls,
                 uploadLog, readyPasses, retrieverCalls>>

\* runBuild, lines 173-204: build the request from the flags and the bytes
\* read from the manifest file, and issue the create-build call once.
CreateBuild ==
  /\ pc = "create"
  /\ createCalls' = createCalls + 1
  /\ issued' = issued \cup {"create"}
  /\ req' = <<[Name |-> buildName, Manifest |-> manifestBytes[1],
               ServeArtifact |-> download]>>
  /\ \/ /\ handleError(<<"create build failed">>)
        /\ UNCHANGED resp
     \/ /\ resp' = <<[Name |-> buildName, Phase |-> "Accepted", Message |-> ""]>>
        /\ pc' = "findRefs" /\ UNCHANGED <<exitCode, errMsg>>
  /\ UNCHANGED <<flagVars, served, notices, credVars, followLogs, manifestBytes, localRefs,
                 uploads, st, monVars, timeVars, dlVars, uploadCalls,
                 uploadLog, readyPasses, retrieverCalls>>

\* ------------------------------------------------------------------ upload
\* FindRefs that enters the upload flow whatever the number of references.
FindRefs_alwaysUpload ==
  /\ pc = "findRefs"
  /\ LET r == findLocalFileReferences(manifestBytes[1])
     IN  /\ localRefs' = r.refs
         /\ IF r.err # Nil
            THEN handleError(<<"manifest file reference error", r.err>>)
            ELSE pc' = "stat" /\ UNCHANGED <<exitCode, errMsg>>
  /\ UNCHANGED <<flagVars, served, notices, credVars, followLogs, manifestBytes, req, resp,
                 uploads, st, monVars, timeVars, dlVars, netVars>>

\* runBuild, lines 206-210: find the local file references of the manifest
\* bytes; the upload flow is entered only when there is at least one.
FindRefs ==
  /\ pc = "findRefs"
  /\ LET r == findLocalFileReferences(manifestBytes[1])
     IN  /\ localRefs' = r.refs
         /\ IF r.err # Nil
            THEN handleError(<<"manifest file reference error", r.err>>)
            ELSE /\ pc' = IF Len(r.refs) > 0 THEN "stat" ELSE "wait"
                 /\ UNCHANGED <<exitCode, errMsg>>
  /\ UNCHANGED <<flagVars, served, notices, credVars, followLogs, manifestBytes, req, resp,
                 uploads, st, monVars, timeVars, dlVars, netVars>>

\* runBuild, lines 211-219: every referenced file must exist on disk; then
\* the readiness deadline starts.
StatFiles ==
  /\ pc = "stat"
  /\ \/ handleError(<<"referenced file does not exist">>)
     \/ pc' = "ready" /\ UNCHANGED <<exitCode, errMsg>>
  /\ UNCHANGED <<flagVars, served, notices, credVars, followLogs, buildVars, st, monVars,
                 timeVars, dlVars, netVars>>

\* runBuild, lines 221-223: the readiness deadline has passed.
ReadyTimeout ==
  /\ pc = "ready" /\ readyExpired
  /\ handleError(<<"timed out waiting for upload server to be ready">>)
  /\ UNCHANGED <<flagVars, served, notices, credVars, followLogs, buildVars, st, monVars,
                 timeVars, dlVars, netVars>>

\* The uploads built from the references, lines 238-241.
uploadsOf(refs) ==
  [i \in 1..Len(refs) |->
     [SourcePath |-> refs[i].source_path, DestPath |-> refs[i].source_path]]

\* ReadyPoll that leaves the wait on every phase but Failed.
ReadyPoll_anyPhase ==
  /\ pc = "ready" /\ ~readyExpired
  /\ \E a \in GetBuildAnswers, late \in BOOLEAN :
       /\ issued' = issued \cup {"ready-status"}
       /\ st' = a
       /\ IF a # GetBuildErr /\ a.Phase # "Failed"
          THEN /\ pc' = "upload" /\ UNCHANGED <<exitCode, errMsg>>
               /\ uploads' = uploadsOf(localRefs)
               /\ readyPasses' = readyPasses + 1
               /\ UNCHANGED readyExpired
          ELSE IF a # GetBuildErr /\ a.Phase = "Failed"
          THEN /\ handleError(<<"build failed while waiting for upload server",
                                a.Message>>)
               /\ UNCHANGED <<uploads, readyExpired, readyPasses>>
          ELSE /\ readyExpired' = late
               /\ UNCHANGED <<ctlVars, uploads, readyPasses>>
  /\ UNCHANGED <<flagVars, served, notices, credVars, followLogs, manifestBytes, req, resp,
                 localRefs, monVars, uploadExpired, waitExpired,
                 artifactExpired, dlVars, createCalls, uploadCalls,
                 uploadLog, retrieverCalls>>

\* ReadyPoll that takes Failed for one more phase to wait through.
ReadyPoll_failedKeepsWaiting ==
  /\ pc = "ready" /\ ~readyExpired
  /\ \E a \in GetBuildAnswers, late \in BOOLEAN :
       /\ issued' = issued \cup {"ready-status"}
       /\ st' = a
       /\ IF a # GetBuildErr /\ a.Phase = "Uploading"
          THEN /\ pc' = "upload" /\ UNCHANGED <<exitCode, errMsg>>
               /\ uploads' = uploadsOf(localRefs)
               /\ readyPasses' = readyPasses + 1
               /\ UNCHANGED readyExpired
          ELSE /\ readyExpired' = late
               /\ UNCHANGED <<ctlVars, uploads, readyPasses>>
  /\ UNCHANGED <<flagVars, served, notices, credVars, followLogs, manifestBytes, req, resp,
                 localRefs, monVars, uploadExpired, waitExpired,
                 artifactExpired, dlVars, createCalls, uploadCalls,
                 uploadLog, retrieverCalls>>

\* runBuild, lines 224-243: one iteration of the readiness wait: fetch the
\* status; Uploading ends the wait, Failed is fatal, anything else (an error
\* included) sleeps and polls again.  Time passes during the call and sleep.
ReadyPoll ==
  /\ pc = "ready" /\ ~readyExpired
  /\ \E a \in GetBuildAnswers, late \in BOOLEAN :
       /\ issued' = issued \cup {"ready-status"}
       /\ st' = a
       /\ IF a # GetBuildErr /\ a.Phase = "Uploading"
          THEN /\ pc' = "upload" /\ UNCHANGED <<exitCode, errMsg>>
               /\ uploads' = uploadsOf(localRefs)
               /\ readyPasses' = readyPasses + 1
               /\ UNCHANGED readyExpired
          ELSE IF a # GetBuildErr /\ a.Phase = "Failed"
          THEN /\ handleError(<<"build failed while waiting for upload server",
                                a.Message>>)
               /\ UNCHANGED <<uploads, readyExpired, readyPasses>>
          ELSE /\ readyExpired' = late
               /\ UNCHANGED <<ctlVars, uploads, readyPasses>>
  /\ UNCHANGED <<flagVars, served, notices, credVars, followLogs, manifestBytes, req, resp,
                 localRefs, monVars, uploadExpired, waitExpired,
                 artifactExpired, dlVars, createCalls, uploadCalls,
                 uploadLog, retrieverCalls>>

\* The answers of one UploadFiles call: success, an error carrying a
\* transient signal (503, service unavailable, upload pod not ready), or
\* another error.
UploadAnswers == {"ok", "transient", "fatal"}

\* UploadFiles whose loop is not left when the call succeeds.
UploadFiles_noBreak ==
  /\ pc = "upload"
  /\ \E ans \in UploadAnswers, late \in BOOLEAN :
       /\ uploadCalls' = uploadCalls + 1
       /\ uploadLog' = Append(uploadLog, ans)
       /\ issued' = issued \cup {"upload"}
       /\ IF ans = "ok"
          THEN /\ UNCHANGED ctlVars
               /\ UNCHANGED <<uploadExpired, notices>>
          ELSE IF uploadExpired \/ late \/ uploadCalls >= MaxUploadRetries
          THEN /\ handleError(<<"upload files failed">>)
               /\ uploadExpired' = TRUE
               /\ UNCHANGED notices
          ELSE IF ans = "transient"
          THEN /\ UNCHANGED ctlVars
               /\ notices' = noticed("upload")
               /\ \E lateAfterSleep \in BOOLEAN : uploadExpired' = lateAfterSleep
          ELSE /\ handleError(<<"upload files failed">>)
               /\ UNCHANGED <<uploadExpired, notices>>
  /\ UNCHANGED <<flagVars, served, credVars, followLogs, buildVars, st, monVars,
                 readyExpired, waitExpired, artifactExpired, dlVars,
                 createCalls, readyPasses, retrieverCalls>>

\* runBuild, lines 244-259: one iteration of the transfer loop.  The deadline
\* is read only after a failed call; it has passed at the latest once
\* MaxUploadRetries calls were followed by their sleep.
UploadFiles ==
  /\ pc = "upload"
  /\ \E ans \in UploadAnswers, late \in BOOLEAN :
       /\ uploadCalls' = uploadCalls + 1
       /\ uploadLog' = Append(uploadLog, ans)
       /\ issued' = issued \cup {"upload"}
       /\ IF ans = "ok"
          THEN /\ pc' = "wait" /\ UNCHANGED <<exitCode, errMsg>>
               /\ UNCHANGED <<uploadExpired, notices>>
          ELSE IF uploadExpired \/ late \/ uploadCalls >= MaxUploadRetries
          THEN /\ handleError(<<"upload files failed">>)
               /\ uploadExpired' = TRUE
               /\ UNCHANGED notices
          ELSE IF ans = "transient"
          THEN /\ UNCHANGED ctlVars
               /\ notices' = noticed("upload")
               /\ \E lateAfterSleep \in BOOLEAN : uploadExpired' = lateAfterSleep
          ELSE /\ handleError(<<"upload files failed">>)
               /\ UNCHANGED <<uploadExpired, notices>>
  /\ UNCHANGED <<flagVars, served, credVars, followLogs, buildVars, st, monVars,
                 readyExpired, waitExpired, artifactExpired, dlVars,
                 createCalls, readyPasses, retrieverCalls>>

\* ----------------------------------------------------------------- monitor
\* runBuild, lines 262-279 and 345: without --wait, --follow and --download
\* the run returns; otherwise the wait timeout starts (a timeout of zero
\* minutes has passed at once) and the loop's locals are initialised.
StartWait ==
  /\ pc = "wait"
  /\ IF waitForBuild \/ followLogs \/ download
     THEN /\ pc' = "monitor" /\ UNCHANGED <<exitCode, errMsg>>
          /\ userFollowRequested' = followLogs
          /\ lastPhase' = "" /\ lastMessage' = ""
          /\ logFollowWarned' = FALSE
          /\ \E zeroTimeout \in BOOLEAN : waitExpired' = zeroTimeout
     ELSE /\ returnFromRun
          /\ UNCHANGED <<monVars, waitExpired>>
  /\ UNCHANGED <<flagVars, served, notices, credVars, followLogs, buildVars, st,
                 readyExpired, uploadExpired, artifactExpired, dlVars, netVars>>

\* runBuild, lines 282-283: the select takes the timeout case.
MonitorTimeout ==
  /\ pc = "monitor" /\ waitExpired
  /\ handleError(<<"timed out waiting for build">>)
  /\ UNCHANGED <<flagVars, served, notices, credVars, followLogs, buildVars, st, monVars,
                 timeVars, dlVars, netVars>>

\* The answers of one log-stream fetch: 200, 503, 504, another status, or a
\* transport failure with no response.
LogAnswers == {"200", "503", "504", "other", "transport"}

\* followAfter that takes 503 and 504 for errors that end log following.
followAfter_503disables(ans) ==
  IF ~followLogs THEN followLogs
  ELSE IF ans = "200" THEN userFollowRequested
  ELSE IF ans = "transport" THEN followLogs
  ELSE FALSE

\* followLogs after the log part of a tick, lines 285-315.
followAfter(ans) ==
  IF ~followLogs THEN followLogs
  ELSE IF ans = "200" THEN userFollowRequested
  ELSE IF ans \in {"503", "504", "transport"} THEN followLogs
  ELSE FALSE

\* logFollowWarned after the log part of a tick, lines 299-303.
warnedAfter(ans) ==
  IF followLogs /\ ans \in {"503", "504"} THEN TRUE ELSE logFollowWarned

\* runBuild, lines 323-324: whether the status line "status: phase -
\* message" is printed for the answer a of a successful status fetch.
printsStatus(a) ==
  /\ ~userFollowRequested
  /\ (a.Phase # lastPhase \/ a.Message # lastMessage)

\* The notices printed after the log part of a tick, lines 299-303.
noticesAfter(ans) ==
  IF followLogs /\ ans \in {"503", "504"} /\ ~logFollowWarned
  THEN noticed("logs") ELSE notices

\* MonitorTick that keeps polling after Completed when no download was
\* requested.
MonitorTick_pollsOn ==
  /\ pc = "monitor"
  /\ \E logAns \in (IF followLogs THEN LogAnswers ELSE {"none"}),
        a \in GetBuildAnswers, late \in BOOLEAN :
       /\ followLogs' = followAfter(logAns)
       /\ logFollowWarned' = warnedAfter(logAns)
       /\ notices' = noticesAfter(logAns)
       /\ issued' = issued \cup (IF followLogs THEN {"logs"} ELSE {})
                           \cup {"monitor-status"}
       /\ st' = a
       /\ waitExpired' = (waitExpired \/ late)
       /\ IF a = GetBuildErr
          THEN UNCHANGED <<ctlVars, lastPhase, lastMessage>>
          ELSE /\ IF printsStatus(a)
                  THEN lastPhase' = a.Phase /\ lastMessage' = a.Message
                  ELSE UNCHANGED <<lastPhase, lastMessage>>
               /\ IF a.Phase = "Completed"
                  THEN IF download
                       THEN pc' = "download" /\ UNCHANGED <<exitCode, errMsg>>
                       ELSE UNCHANGED ctlVars
                  ELSE IF a.Phase = "Failed"
                  THEN handleError(<<"build failed", a.Message>>)
                  ELSE UNCHANGED ctlVars
       /\ retrieverCalls' = IF a.Phase = "Completed" /\ download
                            THEN retrieverCalls + 1 ELSE retrieverCalls
  /\ UNCHANGED <<flagVars, served, credVars, buildVars, userFollowRequested,
                 readyExpired, uploadExpired, artifactExpired, dlVars,
                 createCalls, uploadCalls, uploadLog, readyPasses>>

\* MonitorTick that reports a failed build without the remote message.
MonitorTick_dropsMessage ==
  /\ pc = "monitor"
  /\ \E logAns \in (IF followLogs THEN LogAnswers ELSE {"none"}),
        a \in GetBuildAnswers, late \in BOOLEAN :
       /\ followLogs' = followAfter(logAns)
       /\ logFollowWarned' = warnedAfter(logAns)
       /\ notices' = noticesAfter(logAns)
       /\ issued' = issued \cup (IF followLogs THEN {"logs"} ELSE {})
                           \cup {"monitor-status"}
       /\ st' = a
       /\ waitExpired' = (waitExpired \/ late)
       /\ IF a = GetBuildErr
          THEN UNCHANGED <<ctlVars, lastPhase, lastMessage>>
          ELSE /\ IF printsStatus(a)
                  THEN lastPhase' = a.Phase /\ lastMessage' = a.Message
                  ELSE UNCHANGED <<lastPhase, lastMessage>>
               /\ IF a.Phase = "Completed"
                  THEN IF download
                       THEN pc' = "download" /\ UNCHANGED <<exitCode, errMsg>>
                       ELSE returnFromRun
                  ELSE IF a.Phase = "Failed"
                  THEN handleError(<<"build failed">>)
                  ELSE UNCHANGED ctlVars
       /\ retrieverCalls' = IF a.Phase = "Completed" /\ download
                            THEN retrieverCalls + 1 ELSE retrieverCalls
  /\ UNCHANGED <<flagVars, served, credVars, buildVars, userFollowRequested,
                 readyExpired, uploadExpired, artifactExpired, dlVars,
                 createCalls, uploadCalls, uploadLog, readyPasses>>

\* MonitorTick that ends the run when the log stream answers an error status.
MonitorTick_logErrorAborts ==
  /\ pc = "monitor"
  /\ \E logAns \in (IF followLogs THEN LogAnswers ELSE {"none"}),
        a \in GetBuildAnswers, late \in BOOLEAN :
       /\ followLogs' = followAfter(logAns)
       /\ logFollowWarned' = warnedAfter(logAns)
       /\ notices' = noticesAfter(logAns)
       /\ issued' = issued \cup (IF followLogs THEN {"logs"} ELSE {})
                           \cup {"monitor-status"}
       /\ st' = a
       /\ waitExpired' = (waitExpired \/ late)
       /\ IF logAns = "other"
          THEN /\ handleError(<<"log stream error">>)
               /\ UNCHANGED <<lastPhase, lastMessage>>
          ELSE IF a = GetBuildErr
          THEN UNCHANGED <<ctlVars, lastPhase, lastMessage>>
          ELSE /\ IF printsStatus(a)
                  THEN lastPhase' = a.Phase /\ lastMessage' = a.Message
                  ELSE UNCHANGED <<lastPhase, lastMessage>>
               /\ IF a.Phase = "Completed"
                  THEN IF download
                       THEN pc' = "download" /\ UNCHANGED <<exitCode, errMsg>>
                       ELSE returnFromRun
                  ELSE IF a.Phase = "Failed"
                  THEN handleError(<<"build failed", a.Message>>)
                  ELSE UNCHANGED ctlVars
       /\ retrieverCalls' = IF a.Phase = "Completed" /\ download
                               /\ logAns # "other"
                            THEN retrieverCalls + 1 ELSE retrieverCalls
  /\ UNCHANGED <<flagVars, served, credVars, buildVars, userFollowRequested,
                 readyExpired, uploadExpired, artifactExpired, dlVars,
                 createCalls, uploadCalls, uploadLog, readyPasses>>

\* tickWith that takes a failed status fetch for a fatal error.
tickWith_statusErrorFatal(logAns) ==
  /\ pc = "monitor"
  /\ \E a \in GetBuildAnswers, late \in BOOLEAN :
       /\ st' = a
       /\ followLogs' = followAfter(logAns)
       /\ logFollowWarned' = warnedAfter(logAns)
       /\ notices' = noticesAfter(logAns)
       /\ issued' = issued \cup (IF followLogs THEN {"logs"} ELSE {})
                           \cup {"monitor-status"}
       /\ waitExpired' = (waitExpired \/ late)
       /\ IF a = GetBuildErr
          THEN /\ handleError(<<"status check failed">>)
               /\ UNCHANGED <<lastPhase, lastMessage>>
          ELSE /\ IF printsStatus(a)
                  THEN lastPhase' = a.Phase /\ lastMessage' = a.Message
                  ELSE UNCHANGED <<lastPhase, lastMessage>>
               /\ IF a.Phase = "Completed"
                  THEN IF download
                       THEN pc' = "download" /\ UNCHANGED <<exitCode, errMsg>>
                       ELSE returnFromRun
                  ELSE IF a.Phase = "Failed"
                  THEN handleError(<<"build failed", a.Message>>)
                  ELSE UNCHANGED ctlVars
       /\ retrieverCalls' = IF a.Phase = "Completed" /\ download
                            THEN retrieverCalls + 1 ELSE retrieverCalls
  /\ UNCHANGED <<flagVars, served, credVars, buildVars, userFollowRequested,
                 readyExpired, uploadExpired, artifactExpired, dlVars,
                 createCalls, uploadCalls, uploadLog, readyPasses>>

\* runBuild, lines 285-341: the body of the ticker case when the log-stream
\* fetch, if one is issued, answers logAns: the log part, then one status
\* fetch and the reaction to it.
tickWith(logAns) ==
  /\ pc = "monitor"
  /\ \E a \in GetBuildAnswers, late \in BOOLEAN :
       /\ st' = a
       /\ followLogs' = followAfter(logAns)
       /\ logFollowWarned' = warnedAfter(logAns)
       /\ notices' = noticesAfter(logAns)
       /\ issued' = issued \cup (IF followLogs THEN {"logs"} ELSE {})
                           \cup {"monitor-status"}
       /\ waitExpired' = (waitExpired \/ late)
       /\ IF a = GetBuildErr
          THEN UNCHANGED <<ctlVars, lastPhase, lastMessage>>
          ELSE /\ IF printsStatus(a)
                  THEN lastPhase' = a.Phase /\ lastMessage' = a.Message
                  ELSE UNCHANGED <<lastPhase, lastMessage>>
               /\ IF a.Phase = "Completed"
                  THEN IF download
                       THEN pc' = "download" /\ UNCHANGED <<exitCode, errMsg>>
                       ELSE returnFromRun
                  ELSE IF a.Phase = "Failed"
                  THEN handleError(<<"build failed", a.Message>>)
                  ELSE UNCHANGED ctlVars
       /\ retrieverCalls' = IF a.Phase = "Completed" /\ download
                            THEN retrieverCalls + 1 ELSE retrieverCalls
  /\ UNCHANGED <<flagVars, served, credVars, buildVars, userFollowRequested,
                 readyExpired, uploadExpired, artifactExpired, dlVars,
                 createCalls, uploadCalls, uploadLog, readyPasses>>

\* runBuild, lines 284-341: the select takes the ticker case (possible also
\* when the timeout has passed, as select chooses among the ready cases): one
\* log-stream fetch if following, then one status fetch and the reaction to it.
MonitorTick ==
  \E logAns \in (IF followLogs THEN LogAnswers ELSE {"none"}) :
    tickWith(logAns)

\* ---------------------------------------------------------------- download
\* downloadArtifactViaAPI returns.  runBuild, lines 332-335: the error is
\* printed, if any, and runBuild returns.  runDownload, lines 675-678: an
\* error is printed and the process exits with status 1.
downloadReturns(err) ==
  /\ dlErr' = err
  /\ IF op = "download" /\ err # <<>>
     THEN handleError(<<"Download failed">> \o err)
     ELSE returnFromRun

\* GetBuildForDownload without the check of the phase.
GetBuildForDownload_noPhaseCheck ==
  /\ pc = "getBuild"
  /\ issued' = issued \cup {"download-status"}
  /\ \E a \in GetBuildAnswers :
       /\ st' = a
       /\ IF a = GetBuildErr
          THEN handleError(<<"Error getting build">>)
               /\ UNCHANGED retrieverCalls
          ELSE /\ pc' = "download" /\ UNCHANGED <<exitCode, errMsg>>
               /\ retrieverCalls' = retrieverCalls + 1
  /\ UNCHANGED <<flagVars, served, notices, credVars, followLogs, buildVars, monVars,
                 timeVars, dlVars, createCalls, uploadCalls, uploadLog,
                 readyPasses>>

\* runDownload, lines 665-674: fetch the status once; the retrieval is
\* called only for phase Completed.
GetBuildForDownload ==
  /\ pc = "getBuild"
  /\ issued' = issued \cup {"download-status"}
  /\ \E a \in GetBuildAnswers :
       /\ st' = a
       /\ IF a = GetBuildErr
          THEN handleError(<<"Error getting build">>)
               /\ UNCHANGED retrieverCalls
          ELSE IF a.Phase # "Completed"
          THEN handleError(<<"Build is not completed", a.Phase>>)
               /\ UNCHANGED retrieverCalls
          ELSE /\ pc' = "download" /\ UNCHANGED <<exitCode, errMsg>>
               /\ retrieverCalls' = retrieverCalls + 1
  /\ UNCHANGED <<flagVars, served, notices, credVars, followLogs, buildVars, monVars,
                 timeVars, dlVars, createCalls, uploadCalls, uploadLog,
                 readyPasses>>

\* runList, lines 701-713: one ListBuilds call; an error is fatal, any
\* listing, the empty one included, is printed.
ListBuilds ==
  /\ pc = "listBuilds"
  /\ issued' = issued \cup {"list"}
  /\ \/ handleError(<<"Error listing ImageBuilds">>)
     \/ returnFromRun
  /\ UNCHANGED <<flagVars, served, notices, credVars, followLogs, buildVars, st, monVars,
                 timeVars, dlVars, createCalls, uploadCalls, uploadLog,
                 readyPasses, retrieverCalls>>

\* downloadArtifactViaAPI, lines 447-467: create the output directory and
\* start the retrieval deadline.
DownloadStart ==
  /\ pc = "download"
  /\ \/ /\ downloadReturns(<<"create output dir">>)
        /\ UNCHANGED <<warned, artifactExpired>>
     \/ /\ pc' = "artifact" /\ UNCHANGED <<exitCode, errMsg, dlErr>>
        /\ warned' = FALSE /\ artifactExpired' = FALSE
  /\ UNCHANGED <<flagVars, served, notices, credVars, followLogs, buildVars, st, monVars,
                 readyExpired, uploadExpired, waitExpired, tmpExists,
                 outExists, tree, artifactSeen, copied, netVars>>

\* downloadArtifactViaAPI, lines 469-471: the retrieval deadline has passed.
ArtifactTimeout ==
  /\ pc = "artifact" /\ artifactExpired
  /\ downloadReturns(<<"timed out waiting for artifact to become ready">>)
  /\ UNCHANGED <<flagVars, served, notices, credVars, followLogs, buildVars, st, monVars,
                 timeVars, warned, tmpExists, outExists, tree, artifactSeen,
                 copied, netVars>>

\* The answers of one artifact fetch: a transport failure, 200, 503, 409,
\* another status with a "not ready" body, or another status.
ArtifactAnswers == {"transport", "200", "503", "409", "notready", "other"}

\* The not-ready signals of lines 572-574 are one kind of answer.
answerKind(ans) ==
  IF ans \in {"503", "409", "notready"} THEN "not ready" ELSE ans

\* downloadArtifactViaAPI, lines 482-506: a 200 answer; the temporary file
\* outPath + ".partial" is created, which may fail.
ArtifactOpen ==
  /\ pc = "artifact" /\ ~artifactExpired
  /\ issued' = issued \cup {"artifact"}
  /\ artifactSeen' = artifactSeen \cup {answerKind("200")}
  /\ \/ /\ downloadReturns(<<"create temporary file">>)
        /\ UNCHANGED tmpExists
     \/ /\ pc' = "copy" /\ UNCHANGED <<exitCode, errMsg, dlErr>>
        /\ tmpExists' = TRUE
  /\ UNCHANGED <<flagVars, served, notices, credVars, followLogs, buildVars, st, monVars,
                 timeVars, warned, outExists, tree, copied, createCalls,
                 uploadCalls, uploadLog, readyPasses, retrieverCalls>>

\* ArtifactCopy that ignores a failed copy and goes on to the rename.
ArtifactCopy_ignoresError ==
  /\ pc = "copy"
  /\ \/ /\ copied' = "part"
        /\ pc' = "rename" /\ UNCHANGED <<exitCode, errMsg, dlErr, tmpExists>>
     \/ /\ copied' = "all"
        /\ pc' = "rename" /\ UNCHANGED <<exitCode, errMsg, dlErr, tmpExists>>
  /\ UNCHANGED <<flagVars, served, notices, credVars, followLogs, buildVars, st, monVars,
                 timeVars, warned, outExists, tree, artifactSeen, netVars>>

\* downloadArtifactViaAPI, lines 507-545: the response stream is copied
\* into the temporary file; when the copy fails, having written some part
\* of the stream, the temporary file is removed.
ArtifactCopy ==
  /\ pc = "copy"
  /\ \/ /\ copied' = "part"
        /\ tmpExists' = FALSE
        /\ downloadReturns(<<"copy">>)
     \/ /\ copied' = "all"
        /\ pc' = "rename" /\ UNCHANGED <<exitCode, errMsg, dlErr, tmpExists>>
  /\ UNCHANGED <<flagVars, served, notices, credVars, followLogs, buildVars, st, monVars,
                 timeVars, warned, outExists, tree, artifactSeen, netVars>>

\* downloadArtifactViaAPI, lines 546-569: the temporary file is renamed to
\* the output path and, for an archive when --compress is off, extracted
\* into the directory named after the file; each step may fail.  A file is
\* at the output path by then, so the directory cannot be created when the
\* two paths are the same.
ArtifactStored ==
  /\ pc = "rename"
  /\ \E renameOk, mkdirOk \in BOOLEAN :
       IF ~renameOk
       THEN /\ downloadReturns(<<"rename">>)
            /\ UNCHANGED <<tmpExists, outExists, tree>>
       ELSE /\ tmpExists' = FALSE /\ outExists' = TRUE
            /\ LET outPath == outPathOf(buildName, served)
                   destDir == destDirOf(outPath)
               IN  IF ~(isArchive(served.contentType, outPath)
                        /\ ~compressArtifacts)
                   THEN downloadReturns(<<>>) /\ tree' = tree
                   ELSE IF destDir = outPath
                   THEN /\ downloadReturns(<<"create extract dir",
                                             "not a directory">>)
                        /\ tree' = tree
                   ELSE IF ~mkdirOk
                   THEN /\ downloadReturns(<<"create extract dir",
                                             "i/o error">>)
                        /\ tree' = tree
                   ELSE \E r \in extractTar(outPath, served) :
                          /\ tree' = r.tree
                          /\ downloadReturns(IF r.err = Nil THEN <<>>
                                             ELSE <<"extract tar", r.err>>)
  /\ UNCHANGED <<flagVars, served, notices, credVars, followLogs, buildVars, st,
                 monVars, timeVars, warned, copied, artifactSeen, netVars>>

\* ArtifactFetch that returns the error of a failed request.
ArtifactFetch_transportFatal ==
  /\ pc = "artifact" /\ ~artifactExpired
  /\ issued' = issued \cup {"artifact"}
  /\ \E ans \in ArtifactAnswers \ {"200"}, late \in BOOLEAN :
       /\ artifactSeen' = artifactSeen \cup {answerKind(ans)}
       /\ notices' = IF answerKind(ans) = "not ready" /\ ~warned
                     THEN noticed("artifact") ELSE notices
       /\ IF ans \in {"503", "409", "notready"}
          THEN /\ warned' = TRUE
               /\ artifactExpired' = late
               /\ UNCHANGED <<ctlVars, dlErr>>
          ELSE /\ downloadReturns(<<"HTTP", ans>>)
               /\ UNCHANGED <<warned, artifactExpired>>
  /\ UNCHANGED <<flagVars, served, credVars, followLogs, buildVars, st, monVars,
                 readyExpired, uploadExpired, waitExpired, tmpExists,
                 outExists, tree, copied, createCalls, uploadCalls, uploadLog,
                 readyPasses, retrieverCalls>>

\* ArtifactFetch that sleeps and tries again after any answer.
ArtifactFetch_retriesAll ==
  /\ pc = "artifact" /\ ~artifactExpired
  /\ issued' = issued \cup {"artifact"}
  /\ \E ans \in ArtifactAnswers \ {"200"}, late \in BOOLEAN :
       /\ artifactSeen' = artifactSeen \cup {answerKind(ans)}
       /\ notices' = IF answerKind(ans) = "not ready" /\ ~warned
                     THEN noticed("artifact") ELSE notices
       /\ IF ans = "transport"
          THEN /\ artifactExpired' = late
               /\ UNCHANGED <<ctlVars, warned, dlErr>>
          ELSE /\ warned' = TRUE
               /\ artifactExpired' = late
               /\ UNCHANGED <<ctlVars, dlErr>>
  /\ UNCHANGED <<flagVars, served, credVars, followLogs, buildVars, st, monVars,
                 readyExpired, uploadExpired, waitExpired, tmpExists,
                 outExists, tree, copied, createCalls, uploadCalls, uploadLog,
                 readyPasses, retrieverCalls>>

\* ArtifactFetch that does not take status 409 for a not-ready signal.
ArtifactFetch_conflictFatal ==
  /\ pc = "artifact" /\ ~artifactExpired
  /\ issued' = issued \cup {"artifact"}
  /\ \E ans \in ArtifactAnswers \ {"200"}, late \in BOOLEAN :
       /\ artifactSeen' = artifactSeen \cup {answerKind(ans)}
       /\ notices' = IF answerKind(ans) = "not ready" /\ ~warned
                     THEN noticed("artifact") ELSE notices
       /\ IF ans = "transport"
          THEN /\ artifactExpired' = late
               /\ UNCHANGED <<ctlVars, warned, dlErr>>
          ELSE IF ans \in {"503", "notready"}
          THEN /\ warned' = TRUE
               /\ artifactExpired' = late
               /\ UNCHANGED <<ctlVars, dlErr>>
          ELSE /\ downloadReturns(<<"HTTP", ans>>)
               /\ UNCHANGED <<warned, artifactExpired>>
  /\ UNCHANGED <<flagVars, served, credVars, followLogs, buildVars, st, monVars,
                 readyExpired, uploadExpired, waitExpired, tmpExists,
                 outExists, tree, copied, createCalls, uploadCalls, uploadLog,
                 readyPasses, retrieverCalls>>

\* ArtifactFetch for which the retrieval deadline never passes.
ArtifactFetch_noDeadline ==
  /\ pc = "artifact" /\ ~artifactExpired
  /\ issued' = issued \cup {"artifact"}
  /\ \E ans \in ArtifactAnswers \ {"200"}, late \in BOOLEAN :
       /\ artifactSeen' = artifactSeen \cup {answerKind(ans)}
       /\ notices' = IF answerKind(ans) = "not ready" /\ ~warned
                     THEN noticed("artifact") ELSE notices
       /\ IF ans = "transport"
          THEN /\ artifactExpired' = FALSE
               /\ UNCHANGED <<ctlVars, warned, dlErr>>
          ELSE IF ans \in {"503", "409", "notready"}
          THEN /\ warned' = TRUE
               /\ artifactExpired' = FALSE
               /\ UNCHANGED <<ctlVars, dlErr>>
          ELSE /\ downloadReturns(<<"HTTP", ans>>)
               /\ UNCHANGED <<warned, artifactExpired>>
  /\ UNCHANGED <<flagVars, served, credVars, followLogs, buildVars, st, monVars,
                 readyExpired, uploadExpired, waitExpired, tmpExists,
                 outExists, tree, copied, createCalls, uploadCalls, uploadLog,
                 readyPasses, retrieverCalls>>

\* downloadArtifactViaAPI, lines 472-481 and 571-583: a fetch that yields no
\* artifact: a transport failure or a not-ready answer sleeps and tries again,
\* any other answer is returned as an error.
ArtifactFetch ==
  /\ pc = "artifact" /\ ~artifactExpired
  /\ issued' = issued \cup {"artifact"}
  /\ \E ans \in ArtifactAnswers \ {"200"}, late \in BOOLEAN :
       /\ artifactSeen' = artifactSeen \cup {answerKind(ans)}
       /\ notices' = IF answerKind(ans) = "not ready" /\ ~warned
                     THEN noticed("artifact") ELSE notices
       /\ IF ans = "transport"
          THEN /\ artifactExpired' = late
               /\ UNCHANGED <<ctlVars, warned, dlErr>>
          ELSE IF ans \in {"503", "409", "notready"}
          THEN /\ warned' = TRUE
               /\ artifactExpired' = late
               /\ UNCHANGED <<ctlVars, dlErr>>
          ELSE /\ downloadReturns(<<"HTTP", ans>>)
               /\ UNCHANGED <<warned, artifactExpired>>
  /\ UNCHANGED <<flagVars, served, credVars, followLogs, buildVars, st, monVars,
                 readyExpired, uploadExpired, waitExpired, tmpExists,
                 outExists, tree, copied, createCalls, uploadCalls, uploadLog,
                 readyPasses, retrieverCalls>>

\* ----------------------------------------------------------- specification
Next ==
  \/ Validate
  \/ NewClient
  \/ ReadManifest
  \/ ParseFlags
  \/ CreateBuild
  \/ FindRefs
  \/ StatFiles
  \/ ReadyTimeout
  \/ ReadyPoll
  \/ UploadFiles
  \/ StartWait
  \/ MonitorTimeout
  \/ MonitorTick
  \/ GetBuildForDownload
  \/ ListBuilds
  \/ DownloadStart
  \/ ArtifactTimeout
  \/ ArtifactOpen
  \/ ArtifactCopy
  \/ ArtifactStored
  \/ ArtifactFetch

Spec == Init /\ [][Next]_vars

\* The runs with an explicit token.
LiveInit ==
  /\ BuildInit \/ DownloadInit \/ ListInit
  /\ authToken = "tok"
  /\ kube = NoKubeconfig /\ served = TreeArtifact
  /\ RunInit

\* The steps that end in one execution: all but the iterations of the
\* polling loops, whose outcome the remote API decides.  The transfer loop
\* is among them, every iteration counting towards its deadline.
Progress ==
  \/ Validate \/ NewClient \/ ReadManifest \/ ParseFlags \/ CreateBuild
  \/ FindRefs \/ StatFiles \/ ReadyTimeout \/ UploadFiles \/ StartWait
  \/ MonitorTimeout \/ GetBuildForDownload \/ ListBuilds \/ DownloadStart
  \/ ArtifactTimeout \/ ArtifactCopy \/ ArtifactStored

\* The program keeps running: a step that can be taken is taken (for the
\* monitor's timeout case: the select, which picks at random among its ready
\* cases, takes it in the end).  Time advances with every sleep and every
\* remote call, so a deadline whose loop keeps polling passes in the end.
\* Nothing is assumed about the answers of the remote API.
LiveSpec ==
  /\ LiveInit /\ [][Next]_vars
  /\ WF_vars(Progress)
  /\ WF_vars(ReadyPoll /\ readyExpired')
  /\ WF_vars(MonitorTick /\ waitExpired')
  /\ WF_vars(ArtifactFetch /\ artifactExpired')

\* The credential lookup over every cluster configuration: caib list, the
\* shortest command that resolves a credential.
TokenInit ==
  /\ ListInit
  /\ kube \in KubeEnvs /\ served = ImageArtifact
  /\ RunInit

TokenNext ==
  \/ Validate
  \/ NewClient
  \/ ListBuilds

TokenSpec == TokenInit /\ [][TokenNext]_vars

\* ================================================================== claims
\* The add_files entries of a manifest, content block first.
entriesOf(m) == m.content \o m.qm

\* The positions inside downloadArtifactViaAPI.
inRetrieval == {"download", "artifact", "copy", "rename"}

\* The retrieval of an artifact over every answer of the model: caib
\* download of the build "demo".
ExtractInit ==
  /\ op = "download" /\ buildName = "demo"
  /\ serverURL = "https://api.example" /\ authToken = "tok"
  /\ compressArtifacts \in BOOLEAN
  /\ NoBuildFlags
  /\ kube = NoKubeconfig /\ served \in Artifacts
  /\ RunInit

ExtractNext ==
  \/ Validate
  \/ NewClient
  \/ GetBuildForDownload
  \/ DownloadStart
  \/ ArtifactTimeout
  \/ ArtifactOpen
  \/ ArtifactCopy
  \/ ArtifactStored
  \/ ArtifactFetch

ExtractSpec == ExtractInit /\ [][ExtractNext]_vars

\* ---------------------------------------------------------------------- C1
\* C1: the create-build call is issued at most once in a run, and a run whose
\* create-build call failed has exited with a non-zero status having issued
\* no other network call (no retry, status fetch, upload or artifact fetch).
C1_CreateOnceNoRetry ==
  /\ createCalls <= 1
  /\ (createCalls > 0 /\ resp = <<>>) =>
       /\ pc = "exited" /\ exitCode = 1
       /\ issued = {"create"}
       /\ uploadCalls = 0

\* A run whose create-build call failed.
C1_Witness ==
  /\ createCalls = 1 /\ resp = <<>>
  /\ pc = "exited" /\ errMsg = <<"create build failed">>

\* ---------------------------------------------------------------------- C2
\* C2: a run that exits with status zero has succeeded in every requested
\* step; in particular, when download was requested and the monitor went on
\* to retrieve the artifact, the retrieval returned no error.
C2_ZeroExitOnlyOnFullSuccess ==
  (pc = "exited" /\ exitCode = 0) =>
    /\ (op = "build" => resp # <<>>)
    /\ (localRefs # <<>> => "upload" \in issued)
    /\ ((download \/ op = "download") => dlErr = <<>> /\ outExists)

\* ---------------------------------------------------------------------- C3
\* A manifest with a validated add_files entry (string path, string
\* source_path) whose source path holds a ".." segment.
hasTraversalEntry(m) ==
  \E i \in 1..Len(entriesOf(m)) :
    /\ entriesOf(m)[i].path # NoString
    /\ entriesOf(m)[i].source_path # NoString
    /\ Contains(entriesOf(m)[i].source_path, <<".", ".">>)

\* C3: when the manifest read holds an add_files entry whose source path has
\* a ".." segment, the run issues no network call at all.
C3_TraversalNoNetworkCall ==
  (manifestBytes # <<>> /\ hasTraversalEntry(manifestBytes[1])) =>
    /\ issued = {}
    /\ createCalls = 0

\* ---------------------------------------------------------------------- C4
\* The flags the claim calls invalid: a missing manifest path or build name,
\* a blank architecture, or an unrecognized enumeration value.
invalidFlags ==
  \/ manifest = ""
  \/ buildName = ""
  \/ TrimSpace(architecture) = ""
  \/ distro \notin Distros
  \/ target \notin Targets
  \/ architecture \notin Architectures
  \/ exportFormat \notin ExportFormats
  \/ mode \notin Modes

\* C4: with invalid flags a build run never reaches the create-build call: it
\* issues no network call, and when it has exited its status is non-zero.
C4_InvalidFlagsFatalBeforeCreate ==
  (op = "build" /\ invalidFlags) =>
    /\ pc \in {"validate", "client", "readManifest", "parse", "exited"}
    /\ issued = {} /\ createCalls = 0 /\ uploadCalls = 0
    /\ (pc = "exited" => exitCode = 1)

\* A run ended by an unrecognized --mode, the last flag parsed, after the
\* manifest file was read.
C4_Witness ==
  /\ pc = "exited" /\ exitCode = 1
  /\ errMsg = <<"invalid mode">>
  /\ manifestBytes # <<>>

\* ---------------------------------------------------------------------- C5
\* The shared-workspace root of the documentation, /workspace/shared.
WorkspaceRoot ==
  <<"/", "w", "o", "r", "k", "s", "p", "a", "c", "e",
    "/", "s", "h", "a", "r", "e", "d">>

underWorkspaceRoot(p) == HasPrefix(p, WorkspaceRoot \o <<"/">>)

\* The manifest whose add_files entries are the given references.
manifestOfRefs(refs) ==
  Manifest([i \in 1..Len(refs) |->
              Entry(refs[i].path, refs[i].source_path, NoString)], <<>>)

\* C5: every reference the preprocessing accepts has a source path under
\* the shared-workspace root, and preprocessing the manifest that holds the
\* resulting references yields the same references again.
C5_RefsUnderWorkspaceRoot ==
  /\ \A i \in 1..Len(localRefs) : underWorkspaceRoot(localRefs[i].source_path)
  /\ findLocalFileReferences(manifestOfRefs(localRefs)).refs = localRefs

\* ---------------------------------------------------------------------- C6
\* The local file a manifest entry names: its source_path, else its source.
sourceOf(e) == IF e.source_path # NoString THEN e.source_path ELSE e.source

\* An entry that names a local file for a destination path.
isLocalFileEntry(e) == e.path # NoString /\ sourceOf(e) # NoString

\* A local file entry whose source passes the path validation.
isAcceptedEntry(e) == isLocalFileEntry(e) /\ isPathSafe(sourceOf(e)) = Nil

\* C6: every local file reference (a source that passes the validation) of
\* the manifest carried by the create-build request is a path under the
\* shared-workspace root.
C6_SubmittedManifestRewritten ==
  req # <<>> =>
    \A i \in 1..Len(entriesOf(req[1].Manifest)) :
      isAcceptedEntry(entriesOf(req[1].Manifest)[i]) =>
        underWorkspaceRoot(sourceOf(entriesOf(req[1].Manifest)[i]))

\* ---------------------------------------------------------------------- C7
\* The positions of a run after the preprocessing has returned without error.
afterRefs == {"stat", "ready", "upload", "wait", "monitor"} \cup inRetrieval

\* C7: once the preprocessing of a build run has succeeded there is exactly one reference per
\* manifest entry with a string path and a string source_path or source that
\* passes the validation, and a manifest with such an entry does not reach
\* the wait stage without an upload call.
C7_SourceKeyEntriesBecomeReferences ==
  (op = "build" /\ pc \in afterRefs) =>
    LET es == entriesOf(manifestBytes[1])
        n == Cardinality({i \in 1..Len(es) : isAcceptedEntry(es[i])})
    IN  /\ Len(localRefs) = n
        /\ (n > 0 /\ pc \in {"wait", "monitor"} \cup inRetrieval)
             => "upload" \in issued

\* ---------------------------------------------------------------------- C8
\* A manifest with a validated add_files entry (string path, string
\* source_path) whose source path is empty, the root path, or absolute.
hasRejectedEntry(m) ==
  \E i \in 1..Len(entriesOf(m)) :
    /\ entriesOf(m)[i].path # NoString
    /\ entriesOf(m)[i].source_path # NoString
    /\ \/ entriesOf(m)[i].source_path = <<>>
       \/ entriesOf(m)[i].source_path = <<"/">>
       \/ IsAbs(entriesOf(m)[i].source_path)

\* C8: for a manifest with an empty, root or absolute source path the
\* preprocessing returns an error and no references, and the run never
\* enters the upload flow: no readiness poll, no upload call, and a non-zero
\* status once it has exited.
C8_RejectedPathEndsRun ==
  (manifestBytes # <<>> /\ hasRejectedEntry(manifestBytes[1])) =>
    /\ findLocalFileReferences(manifestBytes[1]).err # Nil
    /\ findLocalFileReferences(manifestBytes[1]).refs = <<>>
    /\ localRefs = <<>>
    /\ pc \notin afterRefs
    /\ "ready-status" \notin issued /\ uploadCalls = 0
    /\ (pc = "exited" => exitCode = 1)

\* A run ended by the preprocessing error for an absolute source path that
\* follows an accepted entry of the other block.
C8_Witness ==
  /\ pc = "exited" /\ exitCode = 1
  /\ errMsg = <<"manifest file reference error",
                "absolute path outside safe directories">>
  /\ Len(entriesOf(manifestBytes[1])) = 2
  /\ createCalls = 1

\* ---------------------------------------------------------------------- C9
\* C9: a run over a manifest that yields no local file reference issues no
\* upload call and no readiness poll, whatever the remote API answers.
C9_NoRefsNoUpload ==
  (manifestBytes # <<>>
     /\ findLocalFileReferences(manifestBytes[1]).refs = <<>>) =>
    /\ uploadCalls = 0
    /\ "upload" \notin issued
    /\ "ready-status" \notin issued
    /\ pc \notin {"stat", "ready", "upload"}

\* A run over a manifest without references that went through the monitor
\* loop to a successful end.
C9_Witness ==
  /\ pc = "exited" /\ exitCode = 0
  /\ manifestBytes # <<>> /\ manifestBytes[1].valid
  /\ findLocalFileReferences(manifestBytes[1]).refs = <<>>
  /\ Len(entriesOf(manifestBytes[1])) > 0
  /\ "monitor-status" \in issued

\* --------------------------------------------------------------------- C10
\* C10: every step that issues an upload-transfer call starts in a state in
\* which the create-build call has succeeded and the latest status fetch,
\* one of the readiness wait, returned phase Uploading.
C10_UploadOnlyAfterUploading ==
  [][uploadCalls' # uploadCalls =>
       /\ resp # <<>>
       /\ "ready-status" \in issued
       /\ st.Phase = "Uploading"]_vars

\* An upload-transfer call was issued after Accepted, then Uploading, had
\* been polled: here the retried one.
C10_Witness ==
  /\ uploadCalls = 2
  /\ st.Phase = "Uploading"
  /\ pc = "upload"

\* --------------------------------------------------------------------- C11
\* C11: whenever the artifact retrieval has been called or an artifact fetch
\* has been issued, the latest status fetch of the run returned phase
\* Completed, and it was the monitor's fetch of a build run with --download
\* or the fetch of a download run; with any other phase observed there is
\* no retrieval and no artifact fetch.
C11_ArtifactOnlyAfterCompleted ==
  (pc \in inRetrieval \/ retrieverCalls > 0
     \/ "artifact" \in issued) =>
    /\ st.Phase = "Completed"
    /\ IF op = "build" THEN download /\ "monitor-status" \in issued
       ELSE op = "download" /\ "download-status" \in issued

\* A download run that stored the artifact after its status fetch.
C11_Witness ==
  /\ op = "download" /\ "artifact" \in issued /\ outExists
  /\ pc = "exited" /\ exitCode = 0

\* --------------------------------------------------------------------- C12
\* The monitor's latest status fetch returned the given phase.
monitorObserved(phase) == "monitor-status" \in issued /\ st.Phase = phase

\* C12: once the monitor has observed Completed, polling has stopped (the
\* run is in the retrieval or has ended) and a run that has ended has status
\* zero; the readiness wait was passed exactly once if the manifest had
\* local file references and never otherwise; the retrieval was called
\* exactly once if --download was given, and not at all otherwise.
C12_CompletedEndsMonitor ==
  monitorObserved("Completed") =>
    /\ pc \in inRetrieval \cup {"exited"}
    /\ (pc = "exited" => exitCode = 0)
    /\ readyPasses = (IF localRefs # <<>> THEN 1 ELSE 0)
    /\ retrieverCalls = (IF download THEN 1 ELSE 0)
    /\ (~download => "artifact" \notin issued)

\* A run that passed the readiness wait, uploaded, watched the build reach
\* Completed and stored the artifact.
C12_Witness ==
  /\ monitorObserved("Completed") /\ pc = "exited" /\ exitCode = 0
  /\ readyPasses = 1 /\ uploadCalls = 1
  /\ retrieverCalls = 1 /\ outExists

\* --------------------------------------------------------------------- C13
\* C13: once the monitor has observed Failed the run has ended with a
\* non-zero status and an error that carries the remote status message, and
\* it has neither called the retrieval nor issued an artifact fetch.
C13_FailedEndsRunWithMessage ==
  monitorObserved("Failed") =>
    /\ pc = "exited" /\ exitCode = 1
    /\ errMsg = <<"build failed", st.Message>>
    /\ retrieverCalls = 0
    /\ "artifact" \notin issued

\* A run with --download whose monitor observed Failed with a message.
C13_Witness ==
  /\ monitorObserved("Failed") /\ st.Message = "oom"
  /\ download /\ pc = "exited"

\* --------------------------------------------------------------------- C14
\* C14: every step the monitor takes once the wait timeout has elapsed, no
\* terminal phase having been observed, issues no network call and ends the
\* run with the client-side timeout failure: status 1 and the timeout
\* message, neither success nor the build-failed error.
C14_NoPollAfterTimeout ==
  [][(pc = "monitor" /\ waitExpired) =>
       /\ issued' = issued
       /\ pc' = "exited" /\ exitCode' = 1
       /\ errMsg' = <<"timed out waiting for build">>]_vars

\* --------------------------------------------------------------------- C15
\* The answers of the upload-transfer calls so far were k transient signals
\* and then a success.
transientThenOk(k) ==
  /\ Len(uploadLog) = k + 1
  /\ \A i \in 1..k : uploadLog[i] = "transient"
  /\ uploadLog[k + 1] = "ok"

\* C15: when the upload-transfer call has answered k transient signals and
\* then a success, for any k the retry deadline admits, exactly k + 1 calls
\* were issued, the upload step is over without an upload error, and the
\* run is in, or past, the wait and monitor stage.
C15_RetriedUploadSucceeds ==
  \A k \in 0..MaxUploadRetries :
    transientThenOk(k) =>
      /\ uploadCalls = k + 1
      /\ pc \in {"wait", "monitor", "exited"} \cup inRetrieval
      /\ errMsg # <<"upload files failed">>

\* Three transient answers, then a success on the fourth call, and the run
\* went on to watch the build complete.
C15_Witness ==
  /\ transientThenOk(3) /\ uploadCalls = 4
  /\ monitorObserved("Completed") /\ pc = "exited" /\ exitCode = 0

\* --------------------------------------------------------------------- C16
\* The error of a retrieval that ran out of time.
artifactTimeoutErr == <<"timed out waiting for artifact to become ready">>

\* C16: a retrieval all of whose artifact fetches returned a not-ready
\* signal has no error while it polls, and once it has returned its error is
\* the timeout error, raised after the deadline: never an HTTP-status error.
C16_NotReadyEndsInTimeout ==
  artifactSeen = {"not ready"} =>
    /\ pc = "artifact" => dlErr = <<>>
    /\ pc = "exited" => dlErr = artifactTimeoutErr /\ artifactExpired

\* A download run that saw only not-ready signals and ended on the
\* deadline with status 1.
C16_Witness ==
  /\ artifactSeen = {"not ready"} /\ warned
  /\ op = "download" /\ pc = "exited" /\ exitCode = 1
  /\ errMsg = <<"Download failed">> \o artifactTimeoutErr

\* --------------------------------------------------------------------- C17
\* C17: in every state, a file exists at the final output path only if the
\* whole response stream was written; while the retrieval fetches, copies
\* or is about to rename, and after a failed copy, there is none.
C17_FinalFileOnlyWhenComplete ==
  /\ outExists => copied = "all"
  /\ pc \in inRetrieval => ~outExists

\* A retrieval whose copy failed part of the way.
C17_Witness ==
  /\ copied = "part" /\ dlErr = <<"copy">>
  /\ pc = "exited" /\ ~outExists

\* --------------------------------------------------------------------- C18
\* C18: when the retrieval has returned, with or without an error, the
\* temporary ".partial" file does not exist.
C18_NoPartialFileAfterReturn ==
  (pc = "exited" /\ retrieverCalls > 0) => ~tmpExists

\* --------------------------------------------------------------------- C19
\* The errors that report a deadline of the client.
timeoutErrors ==
  { <<"timed out waiting for upload server to be ready">>,
    <<"timed out waiting for build">>,
    <<"Download failed">> \o artifactTimeoutErr }

\* The outcomes of a run, by its exit status and the error it exited with.
endedInSuccess == exitCode = 0 /\ errMsg = <<>>
endedInTimeout == exitCode = 1 /\ errMsg \in timeoutErrors
endedInFatalError ==
  exitCode = 1 /\ errMsg # <<>> /\ errMsg \notin timeoutErrors

\* C19: every run of build, download and list ends, whatever the remote API
\* answers, and a run that has ended has exactly one of the outcomes
\* success, fatal error and timeout.
C19_EveryRunEnds ==
  /\ <>(pc = "exited")
  /\ [](pc = "exited" =>
         \/ endedInSuccess /\ ~endedInTimeout /\ ~endedInFatalError
         \/ ~endedInSuccess /\ endedInTimeout /\ ~endedInFatalError
         \/ ~endedInSuccess /\ ~endedInTimeout /\ endedInFatalError)

\* A build run that polled in the readiness wait, retried the upload and
\* polled for the artifact before it ended on the retrieval deadline.
C19_Witness ==
  /\ pc = "exited" /\ op = "build"
  /\ readyPasses = 1 /\ uploadCalls = 2
  /\ artifactSeen = {"transport", "not ready"}
  /\ dlErr = artifactTimeoutErr

\* --------------------------------------------------------------------- C20
\* The order of the credential sources.
StepOrder ==
  <<"explicit", "bearer", "file", "legacy-token", "access-token", "id-token",
    "provider-token", "helper">>

\* The position of a source in the order.
stepIndex(step) == CHOOSE i \in 1..Len(StepOrder) : StepOrder[i] = step

\* The token each source of a machine holds, "" if it holds none; the
\* sources of the raw kubeconfig hold none unless the current context and
\* its auth info are found.
sourceToken(k, step) ==
  IF step = "bearer" THEN (IF k.clientConfigOk THEN TrimSpace(k.BearerToken) ELSE "")
  ELSE IF step = "file"
  THEN (IF k.clientConfigOk /\ k.BearerTokenFile # <<>>
        THEN TrimSpace(k.BearerTokenFile[1]) ELSE "")
  ELSE IF step = "legacy-token"
  THEN (IF k.raw = "ok" THEN TrimSpace(k.Token) ELSE "")
  ELSE IF step \in {"access-token", "id-token", "provider-token"}
  THEN (IF k.raw = "ok" /\ k.AuthProvider # <<>>
        THEN TrimSpace(IF step = "access-token" THEN k.AuthProvider[1].accessToken
                       ELSE IF step = "id-token" THEN k.AuthProvider[1].idToken
                       ELSE k.AuthProvider[1].token)
        ELSE "")
  ELSE IF step = "helper" THEN (IF k.oc # <<>> THEN TrimSpace(k.oc[1]) ELSE "")
  ELSE ""

\* C20: once the credential is resolved, the sources were consulted in the
\* fixed order, each only when the explicit token was blank and no source
\* consulted before it held a token; and when the explicit token is blank,
\* no source before the helper holds a token and the helper is present, the
\* helper was invoked.
C20_HelperInvokedWhenPresent ==
  tried # <<>> =>
    /\ \A i, j \in 1..Len(tried) :
         i < j => stepIndex(tried[i]) < stepIndex(tried[j])
    /\ \A j \in 2..Len(tried) :
         \A i \in 2..(j - 1) : sourceToken(kube, tried[i]) = ""
    /\ (/\ Len(tried) > 1
        /\ \A i \in 2..7 : sourceToken(kube, StepOrder[i]) = ""
        /\ kube.oc # <<>>)
         => tried[Len(tried)] = "helper"

\* --------------------------------------------------------------------- C21
\* The entry types extractTar handles.
kept(hdr) == hdr.Typeflag \in {"dir", "reg", "symlink"}

\* An archive whose entries do not get in each other's way: no two of the
\* handled entries have the same path, and an entry above another one is a
\* directory.
wellFormed(entries) ==
  \A i, j \in DOMAIN entries :
    (i # j /\ kept(entries[i]) /\ kept(entries[j])) =>
      LET p == Clean(entries[i].Name)
          q == Clean(entries[j].Name)
      IN  /\ p # q
          /\ (Len(p) < Len(q) /\ SubSeq(q, 1, Len(p)) = p)
               => entries[i].Typeflag = "dir"

\* The entry is on disk at its path under the extraction directory, as a
\* directory, a regular file or a link.
entryExists(t, hdr) ==
  nodeAt(t, realPath(t, Clean(hdr.Name))).kind = hdr.Typeflag

\* The retrieval has stored an archive-typed artifact and --compress is off.
extractionRequested ==
  /\ pc = "exited" /\ outExists /\ ~compressArtifacts
  /\ isArchive(served.contentType, outPathOf(buildName, served))

\* The disk or the file system failed on its own account.
ioFailure ==
  dlErr \in {<<"create extract dir", "i/o error">>,
             <<"extract tar", "i/o error">>}

\* C21: when an archive-typed artifact has been retrieved and extraction is
\* requested, the extraction succeeds and every directory, regular file and
\* symbolic link of the archive exists at its relative path under the
\* destination directory, links as links; entries of other types are skipped
\* and do not fail the extraction.
C21_ArchiveEntriesExtracted ==
  (extractionRequested /\ ~ioFailure /\ wellFormed(served.entries)) =>
    /\ dlErr = <<>>
    /\ \A i \in DOMAIN served.entries :
         kept(served.entries[i]) => entryExists(tree, served.entries[i])

\* --------------------------------------------------------------------- C22
\* C22: once a status fetch has returned Completed or Failed, no further
\* status fetch is issued, neither by the readiness wait nor by the monitor.
C22_NoStatusFetchAfterTerminal ==
  [][st.Phase \in {"Completed", "Failed"} => ~(ReadyPoll \/ MonitorTick)]_vars

\* --------------------------------------------------------------------- C23
\* C23: in each of the three retrying operations (readiness wait, upload
\* transfer, artifact wait), once the operation's deadline has passed no
\* further attempt is started: the next step ends the operation with its
\* error, which for the readiness wait and the transfer ends the run.
C23_NoAttemptAfterDeadline ==
  [][/\ (pc = "ready" /\ readyExpired) =>
          /\ ~ReadyPoll
          /\ pc' = "exited" /\ exitCode' = 1
     /\ (pc = "upload" /\ uploadExpired) =>
          /\ uploadCalls' = uploadCalls
          /\ pc' = "exited" /\ exitCode' = 1
     /\ (pc = "artifact" /\ artifactExpired) =>
          /\ ~(ArtifactFetch \/ ArtifactOpen)
          /\ pc' = "exited" /\ dlErr' # <<>>]_vars

\* --------------------------------------------------------------------- C24
\* Where a tick of the monitor leaves the run, by the answer of its status
\* fetch alone: position, exit status and reported error.
outcomeOfStatus(a) ==
  IF a.Phase = "Completed"
  THEN <<IF download THEN "download" ELSE "exited", 0, <<>>>>
  ELSE IF a.Phase = "Failed"
  THEN <<"exited", 1, <<"build failed", a.Message>>>>
  ELSE <<"monitor", 0, <<>>>>

\* C24: the outcome of the monitor is determined by the status answers and
\* the wait timeout alone: whatever the log-stream fetch of a tick returned
\* and whether following is on, off or was switched off, the tick leaves
\* the run where the answer of its status fetch puts it, so two runs with
\* the same status answers and different log outcomes end alike.  (A step of
\* the monitor is a tick or the timeout case of the select.)
C24_OutcomeIndependentOfLogs ==
  [][(pc = "monitor" /\ ~MonitorTimeout) =>
       <<pc', exitCode', errMsg'>> = outcomeOfStatus(st')]_vars

\* Following was requested and was switched off by a log-stream error, and
\* the run ended in success on a Completed answer.
C24_Witness ==
  /\ userFollowRequested /\ ~followLogs
  /\ monitorObserved("Completed") /\ pc = "exited" /\ exitCode = 0

\* --------------------------------------------------------------------- C25
\* C25: a tick whose log-stream fetch fails with another status than 503 and
\* 504, or with a transport error and no response, switches log following
\* off and still issues its status fetch; once following is off it stays
\* off, so no later tick issues a log-stream fetch, and every later tick
\* issues a status fetch.
C25_LogErrorDisablesFollowing ==
  [][/\ \A ans \in {"other", "transport"} :
          (followLogs /\ tickWith(ans)) =>
             ~followLogs' /\ "monitor-status" \in issued'
     /\ (pc = "monitor" /\ userFollowRequested /\ ~followLogs) =>
          /\ ~followLogs'
          /\ ~MonitorTimeout => "monitor-status" \in issued']_vars

\* --------------------------------------------------------------------- C26
\* C26: a tick whose log-stream fetch answers 503 or 504 does not end the
\* run on that account (it leaves the run where the status answer puts it),
\* keeps log following on and still issues its status fetch; and every tick
\* taken with following on issues a log-stream fetch, so the next tick
\* fetches the log stream afresh.
C26_TransientLogAnswerRetried ==
  [][/\ \A ans \in {"503", "504"} :
          (followLogs /\ tickWith(ans)) =>
             /\ followLogs'
             /\ "monitor-status" \in issued'
             /\ <<pc', exitCode', errMsg'>> = outcomeOfStatus(st')
     /\ (pc = "monitor" /\ followLogs /\ ~MonitorTimeout) =>
          "logs" \in issued']_vars

\* A log-stream fetch has answered 503 or 504, and the monitor is polling
\* with following on.
C26_Witness ==
  /\ pc = "monitor" /\ logFollowWarned /\ followLogs
  /\ {"logs", "monitor-status"} \subseteq issued

\* --------------------------------------------------------------------- C27
\* C27: a tick of the monitor whose status fetch fails leaves the run in the
\* monitor with no error reported, however many failed before it; and a
\* step that leaves the monitor is one that observed Completed, one that
\* observed Failed, or the wait timeout.
C27_StatusErrorKeepsPolling ==
  [][pc = "monitor" =>
       /\ (st' = GetBuildErr /\ ~MonitorTimeout) =>
            pc' = "monitor" /\ exitCode' = 0 /\ errMsg' = <<>>
       /\ pc' # "monitor" =>
            \/ st'.Phase \in {"Completed", "Failed"}
            \/ waitExpired /\ errMsg' = <<"timed out waiting for build">>]_vars

\* The monitor is polling after a status fetch that failed.
C27_Witness ==
  /\ pc = "monitor" /\ st = GetBuildErr /\ "monitor-status" \in issued
  /\ exitCode = 0

\* --------------------------------------------------------------------- C28
\* C28: a non-transient remote failure is fatal where it first occurs.  An
\* upload-transfer call that failed without a transient signal is the last
\* call of the transfer, and the run has ended with the upload error; an
\* artifact fetch that answered a status other than 200, 503 and 409 without
\* a "not ready" body has ended the retrieval with the HTTP error, which
\* fails the download command.
C28_NonTransientFailureIsFatal ==
  /\ \A i \in DOMAIN uploadLog :
       uploadLog[i] = "fatal" =>
         /\ i = Len(uploadLog) /\ uploadCalls = i
         /\ pc = "exited" /\ exitCode = 1
         /\ errMsg = <<"upload files failed">>
  /\ "other" \in artifactSeen =>
         /\ pc = "exited" /\ dlErr = <<"HTTP", "other">>
         /\ op = "download" =>
              exitCode = 1 /\ errMsg = <<"Download failed", "HTTP", "other">>

\* The transfer was retried once on a transient signal and then failed for
\* good on its second call.
C28_Witness ==
  /\ uploadLog = <<"transient", "fatal">> /\ uploadCalls = 2
  /\ pc = "exited" /\ errMsg = <<"upload files failed">>

\* --------------------------------------------------------------------- C29
\* C29: an iteration of the readiness wait that observes Failed ends the
\* run with the fatal error carrying the remote message, no upload call
\* having been issued; one that observes any other phase than Uploading and
\* Failed, or whose status fetch fails, leaves the wait polling; and the
\* wait is left for the upload transfer exactly when Uploading is observed.
\* (A step of the wait is an iteration or the timeout.)
C29_ReadyWaitReactions ==
  [][(pc = "ready" /\ ~ReadyTimeout) =>
       /\ st'.Phase = "Failed" =>
            /\ pc' = "exited" /\ exitCode' = 1
            /\ errMsg' = <<"build failed while waiting for upload server",
                           st'.Message>>
            /\ uploadCalls' = 0
       /\ st'.Phase \notin {"Uploading", "Failed"} =>
            pc' = "ready" /\ exitCode' = 0 /\ errMsg' = <<>>
       /\ pc' = "upload" <=> st'.Phase = "Uploading"]_vars

\* The readiness wait observed Failed with the remote message "oom" and the
\* run ended without an upload call.
C29_Witness ==
  /\ pc = "exited" /\ "ready-status" \in issued /\ uploadCalls = 0
  /\ errMsg = <<"build failed while waiting for upload server", "oom">>

\* --------------------------------------------------------------------- C30
\* C30: within one invocation each of the three "not ready" notices, of
\* the upload transfer, of the log stream and of the artifact wait, has been
\* printed at most once, however many transient answers there were.
C30_TransientReportedOnce ==
  /\ notices.upload <= 1
  /\ notices.logs <= 1
  /\ notices.artifact <= 1

\* --------------------------------------------------------------------- C31
\* C31: on a tick of the monitor whose status fetch succeeds while log
\* following is not in effect (it was never requested, or it is off after a
\* log error), a status line is printed exactly when the phase or the message
\* of the answer differs from the pair last reported, and the pair printed
\* becomes the pair last reported: every change is reported, and no line
\* repeats the one before it.
C31_StatusLineOnChange ==
  [][(pc = "monitor" /\ ~MonitorTimeout /\ st' # GetBuildErr /\ ~followLogs')
       => /\ printsStatus(st')
               <=> (st'.Phase # lastPhase \/ st'.Message # lastMessage)
          /\ <<lastPhase', lastMessage'>> = <<st'.Phase, st'.Message>>]_vars

\* --------------------------------------------------------------------- C32
\* C32: an artifact fetch that fails without an HTTP response is not fatal:
\* a retrieval whose fetches so far failed so, or answered a not-ready
\* signal, has no error while it polls; and a retrieval all of whose fetches
\* failed without a response ends, if it ends, with the timeout error after
\* its deadline has passed.
C32_TransportFailureRetried ==
  /\ (artifactSeen \subseteq {"transport", "not ready"} /\ pc = "artifact")
       => dlErr = <<>> /\ exitCode = 0
  /\ (artifactSeen = {"transport"} /\ pc = "exited")
       => dlErr = artifactTimeoutErr /\ artifactExpired

\* A download run all of whose artifact fetches failed without a response,
\* ended by the deadline with status 1.
C32_Witness ==
  /\ artifactSeen = {"transport"} /\ ~warned
  /\ op = "download" /\ pc = "exited" /\ exitCode = 1
  /\ errMsg = <<"Download failed">> \o artifactTimeoutErr

\* --------------------------------------------------------------------- C33
\* A path, relative to the extraction directory, that lies inside it.
inside(p) == p = <<>> \/ p[1] # ".."

\* C33: whatever the archive holds, names with ".." segments and absolute
\* names included, every directory, file and symbolic link the extraction
\* has created is at a path inside the destination directory.
C33_ExtractionStaysInside ==
  \A n \in tree : inside(n.path)

==============================================================================
